---------------------------- MODULE Spec2Model ----------------------------
(***************************************************************************)
(* A model of the conjugate distributions of src/__dist__.py (dirich,      *)
(* gaussgamma, gausswish) and of unique of src/__util__.py.                 *)
(*                                                                         *)
(* Numbers are exact: a float is a pair <<n, d>>, the reduced fraction n/d  *)
(* with d > 0; <<1, 0>> is +inf, <<-1, 0>> is -inf and <<0, 0>> is NaN, and *)
(* the arithmetic below follows numpy's rules for them.  Rounding is not    *)
(* modelled.  An ndarray lives in the heap, and an instance's parameter     *)
(* record holds the addresses of its arrays, so that two names for one      *)
(* array are two names for one heap cell.                                   *)
(***************************************************************************)
EXTENDS Integers, Sequences, FiniteSets, TLC

VARIABLES heap, obj, ret, ncall

vars == <<heap, obj, ret, ncall>>

-----------------------------------------------------------------------------
(* Floating point numbers, exactly.                                        *)

Abs(n) == IF n < 0 THEN -n ELSE n

Sign(n) == IF n < 0 THEN -1 ELSE IF n > 0 THEN 1 ELSE 0

RECURSIVE GCD(_, _)
GCD(a, b) == IF b = 0 THEN a ELSE GCD(b, a % b)

Norm(n, d) ==
    IF d = 0 THEN <<Sign(n), 0>>
    ELSE LET g == GCD(Abs(n), Abs(d))
         IN  <<Sign(d) * (n \div g), Abs(d) \div g>>

R(n, d) == Norm(n, d)

I(n) == <<n, 1>>

Zero == <<0, 1>>

One == <<1, 1>>

Inf == <<1, 0>>

NaN == <<0, 0>>

isnan(x) == x = NaN

isinf(x) == x[2] = 0 /\ x[1] # 0

\* A faulty test, which DegenerateIsFrozen tells from np.isfinite: +inf and
\* -inf pass it.
notnan(x) == x[1] # 0 \/ x[2] # 0

isfinite(x) == x[2] # 0

RAdd(x, y) ==
    IF x[2] # 0 /\ y[2] # 0
    THEN LET g == GCD(x[2], y[2])
         IN  Norm(x[1] * (y[2] \div g) + y[1] * (x[2] \div g), (x[2] \div g) * y[2])
    ELSE IF isnan(x) \/ isnan(y) THEN NaN
    ELSE IF x[2] = 0 /\ y[2] = 0 THEN (IF x[1] = y[1] THEN x ELSE NaN)
    ELSE IF x[2] = 0 THEN x ELSE y

RNeg(x) == <<-x[1], x[2]>>

RSub(x, y) == RAdd(x, RNeg(y))

RMul(x, y) ==
    IF x[2] # 0 /\ y[2] # 0
    THEN LET g == GCD(Abs(x[1]), y[2])
             h == GCD(Abs(y[1]), x[2])
         IN  <<(x[1] \div g) * (y[1] \div h), (x[2] \div h) * (y[2] \div g)>>
    ELSE Norm(x[1] * y[1], x[2] * y[2])

RInv(x) == IF x[1] < 0 THEN <<-x[2], -x[1]>> ELSE <<x[2], x[1]>>

RDiv(x, y) == RMul(x, RInv(y))

RLt(x, y) ==
    IF isnan(x) \/ isnan(y) THEN FALSE
    ELSE IF x[2] = 0 /\ y[2] = 0 THEN x[1] < y[1]
    ELSE x[1] * y[2] < y[1] * x[2]

RLe(x, y) == RLt(x, y) \/ ((~isnan(x)) /\ x = y)

-----------------------------------------------------------------------------
(* ndarrays: a vector is a sequence of numbers, a matrix a sequence of its *)
(* rows (obs[i][j] is coordinate i of observation j).                      *)

RECURSIVE VSum(_)
VSum(v) == IF v = <<>> THEN Zero ELSE RAdd(Head(v), VSum(Tail(v)))

VAdd(u, v) == [k \in DOMAIN u |-> RAdd(u[k], v[k])]

VSub(u, v) == [k \in DOMAIN u |-> RSub(u[k], v[k])]

VMul(u, v) == [k \in DOMAIN u |-> RMul(u[k], v[k])]

VScale(c, v) == [k \in DOMAIN v |-> RMul(c, v[k])]

VDivS(v, c) == [k \in DOMAIN v |-> RDiv(v[k], c)]

VSq(v) == [k \in DOMAIN v |-> RMul(v[k], v[k])]

Dot(u, v) == VSum(VMul(u, v))

zeros(n) == [k \in 1..n |-> Zero]

ones(n) == [k \in 1..n |-> One]

repeat(c, n) == [k \in 1..n |-> c]

NRows(m) == Len(m)

NCols(m) == IF m = <<>> THEN 0 ELSE Len(m[1])

MAdd(a, b) == [r \in DOMAIN a |-> VAdd(a[r], b[r])]

MSub(a, b) == [r \in DOMAIN a |-> VSub(a[r], b[r])]

MScale(c, a) == [r \in DOMAIN a |-> VScale(c, a[r])]

MDivS(a, c) == [r \in DOMAIN a |-> VDivS(a[r], c)]

MT(a) == [c \in 1..NCols(a) |-> [r \in DOMAIN a |-> a[r][c]]]

MatVec(a, w) == [r \in DOMAIN a |-> Dot(a[r], w)]

RowSum(a) == [r \in DOMAIN a |-> VSum(a[r])]

outer(u, v) == [r \in DOMAIN u |-> [c \in DOMAIN v |-> RMul(u[r], v[c])]]

zerosM(n) == [r \in 1..n |-> zeros(n)]

eye(n) == [r \in 1..n |-> [c \in 1..n |-> IF r = c THEN One ELSE Zero]]

\* obs - ref[:, np.newaxis]
Centre(obs, ref) == [r \in DOMAIN obs |-> [c \in DOMAIN obs[r] |-> RSub(obs[r][c], ref[r])]]

\* np.dot(resid, w[:, np.newaxis] * resid.T)
WGram(resid, w) ==
    [r \in DOMAIN resid |-> [c \in DOMAIN resid |-> Dot(VMul(resid[r], w), resid[c])]]

-----------------------------------------------------------------------------
(* dirich: the sufficient statistics and the conjugate update, on values.  *)
(* A parameter record (class param) is [pi, alpha]; evidence is a sequence *)
(* of responsibility matrices.                                             *)

\* The assertions of dirich.stat: every matrix has self.__dim__ rows.
dirich_stat_asserts(dim, evidence) ==
    \A k \in DOMAIN evidence : NRows(evidence[k]) = dim

RECURSIVE dirich_stat_loop(_, _)
dirich_stat_loop(stat, evidence) ==
    IF Len(evidence) = 0 THEN stat
    ELSE LET count == RowSum(Head(evidence))
         IN  dirich_stat_loop([pi    |-> VAdd(stat.pi, count),
                               alpha |-> RAdd(stat.alpha, VSum(count))],
                              Tail(evidence))

dirich_stat_value(dim, evidence) ==
    dirich_stat_loop([pi |-> zeros(dim), alpha |-> Zero], evidence)

\* A faulty update, which DirichUpdateIsConjugate tells from the update of
\* the code: the old pi is not weighted by the old alpha.
dirich_update_unweighted(p, stat) ==
    IF isinf(p.alpha) THEN p
    ELSE [pi    |-> VDivS(VAdd(p.pi, stat.pi), RAdd(p.alpha, stat.alpha)),
          alpha |-> RAdd(p.alpha, stat.alpha)]

\* A faulty update, which DirichLoopKeepsSimplex tells from the update of
\* the code: pi is divided by the old alpha.
dirich_update_stale(p, stat) ==
    IF isinf(p.alpha) THEN p
    ELSE [pi    |-> VDivS(VAdd(VScale(p.alpha, p.pi), stat.pi), p.alpha),
          alpha |-> RAdd(p.alpha, stat.alpha)]

\* The parameters dirich.update stores, from the parameters p it reads.
dirich_update_value(p, stat) ==
    IF isinf(p.alpha) THEN p
    ELSE LET alpha == RAdd(p.alpha, stat.alpha)
         IN  [pi    |-> VDivS(VAdd(VScale(p.alpha, p.pi), stat.pi), alpha),
              alpha |-> alpha]

-----------------------------------------------------------------------------
(* gaussgamma and gausswish: statistics and update, on values.  A record   *)
(* is [mu, omega, sigma, eta]; an item of evidence is [obs, weight, scale],*)
(* of which the call's flags say what the caller passes: obs alone,        *)
(* (obs, scale), (obs, weight) or (obs, weight, scale).                    *)

\* The assertions of the four loops of stat.
gauss_stat_asserts(dim, evidence, weighted, scaled) ==
    \A k \in DOMAIN evidence :
        /\ NRows(evidence[k].obs) = dim
        /\ weighted => Len(evidence[k].weight) = NCols(evidence[k].obs)
        /\ scaled => Len(evidence[k].scale) = NCols(evidence[k].obs)

\* The weight vector the loop multiplies the observations by.
stat_weight(item, weighted, scaled) ==
    IF ~weighted
    THEN (IF ~scaled THEN ones(NCols(item.obs)) ELSE item.scale)
    ELSE (IF scaled THEN VMul(item.weight, item.scale) ELSE item.weight)

\* What the loop adds to stat.omega.
stat_omega(item, weighted, scaled) ==
    IF ~weighted
    THEN (IF ~scaled THEN I(NCols(item.obs)) ELSE VSum(item.scale))
    ELSE (IF scaled THEN VSum(VMul(item.weight, item.scale)) ELSE VSum(item.weight))

\* A faulty accumulation, which StatEtaByMode tells from the one of the
\* code: eta mirrors omega in every mode.
stat_eta_mirrored(item, weighted, scaled) ==
    IF ~weighted
    THEN (IF ~scaled THEN I(NCols(item.obs)) ELSE VSum(item.scale))
    ELSE (IF scaled THEN VSum(VMul(item.weight, item.scale)) ELSE VSum(item.weight))

\* What the loop adds to stat.eta.
stat_eta(item, weighted, scaled) ==
    IF ~weighted
    THEN (IF ~scaled THEN I(NCols(item.obs)) ELSE VSum(item.scale))
    ELSE (IF scaled THEN VSum(item.scale) ELSE I(NCols(item.obs)))

RECURSIVE gaussgamma_stat_loop(_, _, _, _, _)
gaussgamma_stat_loop(stat, ref, evidence, weighted, scaled) ==
    IF Len(evidence) = 0 THEN stat
    ELSE LET item == Head(evidence)
             w    == stat_weight(item, weighted, scaled)
             sq   == [r \in DOMAIN item.obs |-> VSq(Centre(item.obs, ref)[r])]
         IN  gaussgamma_stat_loop(
                 [mu    |-> VAdd(stat.mu, MatVec(item.obs, w)),
                  omega |-> RAdd(stat.omega, stat_omega(item, weighted, scaled)),
                  sigma |-> VAdd(stat.sigma, MatVec(sq, w)),
                  eta   |-> RAdd(stat.eta, stat_eta(item, weighted, scaled))],
                 ref, Tail(evidence), weighted, scaled)

\* ref after "if stat.omega > 0.0: ref -= stat.mu/stat.omega".
stat_ref(ref, stat) ==
    IF RLt(Zero, stat.omega) THEN VSub(ref, VDivS(stat.mu, stat.omega)) ELSE ref

\* The correction of stat.sigma after the loop, with ref after its update.
gaussgamma_stat_correct(acc, ref) ==
    [acc EXCEPT !.sigma = VSub(acc.sigma, VScale(acc.omega, VSq(ref)))]

gaussgamma_stat_centre(mu, acc) == gaussgamma_stat_correct(acc, stat_ref(mu, acc))

gaussgamma_stat_value(mu, dim, evidence, weighted, scaled) ==
    gaussgamma_stat_centre(
        mu, gaussgamma_stat_loop(
                [mu |-> zeros(dim), omega |-> Zero, sigma |-> zeros(dim), eta |-> Zero],
                mu, evidence, weighted, scaled))

RECURSIVE gausswish_stat_loop(_, _, _, _, _)
gausswish_stat_loop(stat, ref, evidence, weighted, scaled) ==
    IF Len(evidence) = 0 THEN stat
    ELSE LET item  == Head(evidence)
             w     == stat_weight(item, weighted, scaled)
             resid == Centre(item.obs, ref)
         IN  gausswish_stat_loop(
                 [mu    |-> VAdd(stat.mu, MatVec(item.obs, w)),
                  omega |-> RAdd(stat.omega, stat_omega(item, weighted, scaled)),
                  sigma |-> MAdd(stat.sigma, WGram(resid, w)),
                  eta   |-> RAdd(stat.eta, stat_eta(item, weighted, scaled))],
                 ref, Tail(evidence), weighted, scaled)

gausswish_stat_correct(acc, ref) ==
    [acc EXCEPT !.sigma = MSub(acc.sigma, MScale(acc.omega, outer(ref, ref)))]

gausswish_stat_centre(mu, acc) == gausswish_stat_correct(acc, stat_ref(mu, acc))

gausswish_stat_value(mu, dim, evidence, weighted, scaled) ==
    gausswish_stat_centre(
        mu, gausswish_stat_loop(
                [mu |-> zeros(dim), omega |-> Zero, sigma |-> zerosM(dim), eta |-> Zero],
                mu, evidence, weighted, scaled))

\* diff, weight and the Gauss part of update, shared by the two families'
\* update (the code repeats these lines in both).
update_diff(p, stat) ==
    IF RLt(Zero, stat.omega) THEN VSub(p.mu, VDivS(stat.mu, stat.omega)) ELSE p.mu

\* A faulty weight, which OnlineIsBatch tells from the one of the code: the
\* weight of the evidence alone.
update_weight_plain(p, stat) == stat.omega

update_weight(p, stat) ==
    IF isfinite(p.omega)
    THEN RDiv(RMul(p.omega, stat.omega), RAdd(p.omega, stat.omega))
    ELSE stat.omega

update_mu(p, stat) ==
    IF isfinite(p.omega)
    THEN VDivS(VAdd(VScale(p.omega, p.mu), stat.mu), RAdd(p.omega, stat.omega))
    ELSE p.mu

update_omega(p, stat) ==
    IF isfinite(p.omega) THEN RAdd(p.omega, stat.omega) ELSE p.omega

update_eta(p, stat) ==
    IF isfinite(p.eta) THEN RAdd(p.eta, stat.eta) ELSE p.eta

\* sigma = eta*sigma+stat.sigma+weight*np.abs(diff)**2, then sigma /= eta.
gaussgamma_update_sigma(p, stat, diff, weight) ==
    IF isfinite(p.eta)
    THEN VDivS(VAdd(VAdd(VScale(p.eta, p.sigma), stat.sigma), VScale(weight, VSq(diff))),
               RAdd(p.eta, stat.eta))
    ELSE p.sigma

gaussgamma_update_value(p, stat) ==
    IF isinf(p.omega) /\ isinf(p.eta) THEN p
    ELSE [mu    |-> update_mu(p, stat),
          omega |-> update_omega(p, stat),
          sigma |-> gaussgamma_update_sigma(p, stat, update_diff(p, stat),
                                            update_weight(p, stat)),
          eta   |-> update_eta(p, stat)]

\* sigma/2.0+(sigma/2.0).T
Halved(m) == MDivS(m, I(2))

\* A faulty symmetrization, which ZeroStatIsIdentity tells from the one of
\* the code: the transpose is not added.
NoSum(m) == m

SymSum(m) == MAdd(m, MT(m))

symmetrize(sigma) == SymSum(Halved(sigma))

\* sigma = eta*sigma + stat.sigma + weight*np.outer(diff, diff), then
\* sigma /= eta.
gausswish_update_sigma(p, stat, diff, weight) ==
    IF isfinite(p.eta)
    THEN MDivS(MAdd(MAdd(MScale(p.eta, p.sigma), stat.sigma), MScale(weight, outer(diff, diff))),
               RAdd(p.eta, stat.eta))
    ELSE p.sigma

gausswish_update_value(p, stat) ==
    IF isinf(p.omega) /\ isinf(p.eta) THEN p
    ELSE [mu    |-> update_mu(p, stat),
          omega |-> update_omega(p, stat),
          sigma |-> symmetrize(gausswish_update_sigma(p, stat, update_diff(p, stat),
                                                      update_weight(p, stat))),
          eta   |-> update_eta(p, stat)]

-----------------------------------------------------------------------------
(* Instances and the heap.                                                 *)

\* The names the caller holds instances under.
InstSeq == <<"a", "b">>

Insts == {InstSeq[k] : k \in DOMAIN InstSeq}

\* The array attributes of the parameter records, in the order of the slots.
FieldSeq == <<"pi", "mu", "sigma">>

Fields == {FieldSeq[k] : k \in DOMAIN FieldSeq}

NSlots == Len(InstSeq) * Len(FieldSeq)

\* Addresses: one per slot, and two for the arrays local to a call.
Addr == 1..(NSlots + 2)

Null == 0

InstIdx(i) == CHOOSE k \in DOMAIN InstSeq : InstSeq[k] = i

FieldIdx(f) == CHOOSE k \in DOMAIN FieldSeq : FieldSeq[k] = f

Slot(i, f) == Len(FieldSeq) * (InstIdx(i) - 1) + FieldIdx(f)

SetMin(S) == CHOOSE x \in S : \A y \in S : x <= y

\* A fresh address for a new ndarray.
Alloc(h) == SetMin(Addr \ DOMAIN h)

\* The heap with a new array of contents v, and the new array's address.
NewArray(h, v) == [heap |-> (Alloc(h) :> v) @@ h, addr |-> Alloc(h)]

\* In-place assignment x[:] = v (also x -= ..., x /= ...).
Store(h, a, v) == [h EXCEPT ![a] = v]

\* The addresses the instances hold.
Referenced(o) == {o[i][f] : i \in Insts, f \in Fields} \ {Null}

\* Garbage collection, then every array renamed to the first slot that holds
\* it: the addresses of a state are a function of its sharing alone.
FirstSlot(o, x) ==
    SetMin({Slot(q[1], q[2]) : q \in {p \in Insts \X Fields : o[p[1]][p[2]] = x}})

Renaming(o) ==
    [x \in Referenced(o) \cup {Null} |-> IF x = Null THEN Null ELSE FirstSlot(o, x)]

Renamed(o, m) ==
    [i \in Insts |->
        [o[i] EXCEPT !.pi = m[o[i].pi], !.mu = m[o[i].mu], !.sigma = m[o[i].sigma]]]

Moved(h, m) ==
    [n \in {m[x] : x \in DOMAIN m} \ {Null} |->
        h[CHOOSE x \in DOMAIN m : x # Null /\ m[x] = n]]

CanonObj(o) == Renamed(o, Renaming(o))

CanonHeap(h, o) == Moved(h, Renaming(o))

\* The parameter record of an instance, by value.
dirich_param(h, d) == [pi |-> h[d.pi], alpha |-> d.alpha]

gauss_param(h, g) == [mu |-> h[g.mu], omega |-> g.omega, sigma |-> h[g.sigma], eta |-> g.eta]

\* An instance record: its class, __dim__, and the attributes of __param__
\* (arrays by address; an attribute the class does not have is Null or Zero).
Dirich(dim, pi, alpha) ==
    [cls |-> "dirich", dim |-> dim, pi |-> pi, alpha |-> alpha,
     mu |-> Null, omega |-> Zero, sigma |-> Null, eta |-> Zero]

Gauss(cls, dim, mu, omega, sigma, eta) ==
    [cls |-> cls, dim |-> dim, pi |-> Null, alpha |-> Zero,
     mu |-> mu, omega |-> omega, sigma |-> sigma, eta |-> eta]

NoneVal == "None"

\* What a call left: the method, the instance, the other instance (copy,
\* div), the argument, the exception raised ("" if none), the value returned.
Ret(op, self, other, arg, raised, val) ==
    [op |-> op, self |-> self, other |-> other, arg |-> arg, raised |-> raised, val |-> val]

-----------------------------------------------------------------------------
(* Values that are not rational: log, psi (digamma) and gammaln of a       *)
(* number are atoms, and a value is a linear combination of atoms with     *)
(* rational coefficients, a function from the atoms with a nonzero         *)
(* coefficient to the coefficient.  The atom <<"1", One>> is the number 1, *)
(* log(1) is 0, log(0) is -inf.  Two values are equal here only if they    *)
(* are equal whatever the atoms' values.                                   *)

UnitAtom == <<"1", One>>

LCZero == [a \in {} |-> Zero]

LCConst(c) == IF c = Zero THEN LCZero ELSE (UnitAtom :> c)

LCInf == LCConst(Inf)

LCCoef(p, a) == IF a \in DOMAIN p THEN p[a] ELSE Zero

\* f without the atoms of coefficient 0.
NonZero(f) == [a \in {b \in DOMAIN f : f[b] # Zero} |-> f[a]]

LCAdd(p, q) == NonZero([a \in DOMAIN p \cup DOMAIN q |-> RAdd(LCCoef(p, a), LCCoef(q, a))])

LCScale(c, p) == NonZero([a \in DOMAIN p |-> RMul(c, p[a])])

LCSub(p, q) == LCAdd(p, LCScale(I(-1), q))

RECURSIVE LCSum(_)
LCSum(ps) == IF Len(ps) = 0 THEN LCZero ELSE LCAdd(Head(ps), LCSum(Tail(ps)))

log(x) ==
    IF x = Zero THEN LCConst(<<-1, 0>>)
    ELSE IF x = One THEN LCZero
    ELSE IF x = Inf THEN LCInf
    ELSE (<<"log", x>> :> One)

psi(x) == (<<"psi", x>> :> One)

gammaln(x) == (<<"gammaln", x>> :> One)

\* The increasing sequence of the elements of a set of indices (np.where).
RECURSIVE where(_)
where(S) == IF S = {} THEN <<>> ELSE <<SetMin(S)>> \o where(S \ {SetMin(S)})

-----------------------------------------------------------------------------
(* Bounds and inputs.                                                      *)

\* Calls that change an instance (__init__, setters, copy, update) in a run.
MaxCalls == 1

\* Matrices (or items) in one evidence sequence.
MaxBatches == 2

RECURSIVE SeqsUpTo(_, _)
SeqsUpTo(S, n) ==
    IF n = 0 THEN {<<>>}
    ELSE LET shorter == SeqsUpTo(S, n - 1)
         IN  shorter \cup {Append(q, x) : q \in {r \in shorter : Len(r) = n - 1}, x \in S}

Given(v) == [given |-> TRUE, val |-> v]

Default == [given |-> FALSE, val |-> <<>>]

Uniform3 == <<R(1, 3), R(1, 3), R(1, 3)>>

Half3 == <<R(1, 2), R(1, 2), Zero>>

\* Responsibility matrices: 3 x 2, 3 x 1 and (the wrong dimension for a
\* dirich of dim 3) 2 x 1.
ProbA == << <<One, Zero>>, <<Zero, One>>, <<Zero, Zero>> >>

ProbB == << <<R(1, 2)>>, <<Zero>>, <<R(1, 2)>> >>

ProbC == << <<One>>, <<Zero>> >>

DirichEvidence == SeqsUpTo({ProbA, ProbB}, MaxBatches) \cup {<<ProbC>>}

-----------------------------------------------------------------------------
(* dirich                                                                  *)

\* The assertions of the pi and alpha setters.  abs(sum - 1) < spacing(1.0)
\* is sum = 1 for the fractions of this model.
pi_asserts(dim, pi) ==
    /\ Len(pi) = dim
    /\ \A k \in DOMAIN pi : RLe(Zero, pi[k])
    /\ VSum(pi) = One

alpha_asserts(alpha) == (~isnan(alpha)) /\ RLt(Zero, alpha)

\* The instance holds what its setters accept.
dirich_valid(h, d) ==
    d.cls = "dirich" /\ pi_asserts(d.dim, h[d.pi]) /\ alpha_asserts(d.alpha)

\* A faulty copy, which ReadingIsReadOnly tells from np.copy: the array
\* itself is returned.
np_alias(h, a) == [heap |-> h, addr |-> a]

\* np.copy(x), x.copy(): a new array with the contents of the array at a.
np_copy(h, a) == NewArray(h, h[a])

\* The end of a call: the heap and the instances it leaves, and its result.
Finish(h, o, r) ==
    /\ heap' = CanonHeap(h, o)
    /\ obj' = CanonObj(o)
    /\ ret' = r

\* The end of a call that fails an assertion before it writes anything.
Raise(op, self, other, arg, exc) ==
    /\ ret' = Ret(op, self, other, arg, exc, NoneVal)
    /\ UNCHANGED <<heap, obj>>

dirich_init(i, dim, pi, alpha) ==
    /\ ncall < MaxCalls
    /\ dim > 0
    /\ LET pi0    == IF pi.given THEN pi.val ELSE repeat(R(1, dim), dim)
           alpha0 == IF alpha.given THEN alpha.val ELSE One
           n      == NewArray(heap, pi0)
       IN  Finish(n.heap, [obj EXCEPT ![i] = Dirich(dim, n.addr, alpha0)],
                  Ret("__init__", i, NoneVal, <<dim, pi, alpha>>, "", NoneVal))
    /\ ncall' = ncall + 1

\* i = dirich(j.dim, j.pi, j.alpha): the array the getter of j returns is
\* the array of j.
dirich_init_from(i, j) ==
    /\ ncall < MaxCalls
    /\ i # j
    /\ obj[j].cls = "dirich"
    /\ Finish(heap, [obj EXCEPT ![i] = Dirich(obj[j].dim, obj[j].pi, obj[j].alpha)],
              Ret("__init__", i, j, <<>>, "", NoneVal))
    /\ ncall' = ncall + 1

dirich_set_pi(i, pi) ==
    /\ ncall < MaxCalls
    /\ obj[i].cls = "dirich"
    /\ IF pi_asserts(obj[i].dim, pi)
       THEN LET n == NewArray(heap, pi)
            IN  /\ Finish(n.heap, [obj EXCEPT ![i].pi = n.addr],
                          Ret("pi.setter", i, NoneVal, pi, "", NoneVal))
                /\ ncall' = ncall + 1
       ELSE Raise("pi.setter", i, NoneVal, pi, "AssertionError") /\ UNCHANGED ncall

dirich_set_alpha(i, alpha) ==
    /\ ncall < MaxCalls
    /\ obj[i].cls = "dirich"
    /\ IF alpha_asserts(alpha)
       THEN /\ Finish(heap, [obj EXCEPT ![i].alpha = alpha],
                      Ret("alpha.setter", i, NoneVal, alpha, "", NoneVal))
            /\ ncall' = ncall + 1
       ELSE Raise("alpha.setter", i, NoneVal, alpha, "AssertionError") /\ UNCHANGED ncall

\* x[:] = y for vectors, with numpy's broadcast of a single element.
CanAssign(x, y) == Len(y) = Len(x) \/ Len(y) = 1

Assigned(x, y) == IF Len(y) = Len(x) THEN y ELSE [k \in DOMAIN x |-> y[1]]

dirich_copy(i, j) ==
    /\ ncall < MaxCalls
    /\ obj[i].cls = "dirich"
    /\ IF ~(obj[j].cls = "dirich" /\ obj[j].dim = obj[i].dim)
       THEN Raise("copy", i, j, <<>>, "AssertionError") /\ UNCHANGED ncall
       ELSE IF ~CanAssign(heap[obj[i].pi], heap[obj[j].pi])
       THEN Raise("copy", i, j, <<>>, "ValueError") /\ UNCHANGED ncall
       ELSE /\ Finish(Store(heap, obj[i].pi, Assigned(heap[obj[i].pi], heap[obj[j].pi])),
                      [obj EXCEPT ![i].alpha = obj[j].alpha],
                      Ret("copy", i, j, <<>>, "", i))
            /\ ncall' = ncall + 1

\* Draws of random.gamma, one per coordinate.
GammaDraws(dim) == {repeat(One, dim), [k \in 1..dim |-> I(k)]}

\* The coordinates with pi > 0.
Support(pi) == {k \in DOMAIN pi : RLt(Zero, pi[k])}

\* prop[ind] = random.gamma(alpha*pi[ind]) / alpha, with the draws g.
dirich_rand_draw(prop, ind, g, alpha) ==
    [k \in DOMAIN prop |-> IF k \in ind THEN RDiv(g[k], alpha) ELSE prop[k]]

\* prop[ind] /= total.
dirich_rand_norm(prop, ind, total) ==
    [k \in DOMAIN prop |-> IF k \in ind THEN RDiv(prop[k], total) ELSE prop[k]]

\* prop[ind].sum()
dirich_rand_sum(prop, ind) == VSum([k \in DOMAIN prop |-> IF k \in ind THEN prop[k] ELSE Zero])

\* The two assignments to prop[ind], in the heap h, for the array at prop.
dirich_rand_store(h, prop, ind) ==
    Store(h, prop, dirich_rand_norm(h[prop], ind, dirich_rand_sum(h[prop], ind)))

\* c is np.copy(pi); ind is taken from pi before prop is written.
dirich_rand_prop(c, ind, alpha, g) ==
    [heap |-> IF isfinite(alpha)
              THEN dirich_rand_store(
                       Store(c.heap, c.addr, dirich_rand_draw(c.heap[c.addr], ind, g, alpha)),
                       c.addr, ind)
              ELSE c.heap,
     addr |-> c.addr]

dirich_rand_return(i, g, n) == Finish(n.heap, obj, Ret("rand", i, NoneVal, g, "", n.heap[n.addr]))

dirich_rand(i, g) ==
    /\ dirich_valid(heap, obj[i])
    /\ dirich_rand_return(i, g, dirich_rand_prop(np_copy(heap, obj[i].pi),
                                                 Support(heap[obj[i].pi]), obj[i].alpha, g))
    /\ UNCHANGED ncall

\* obs is a vector of coordinates, 1-based here.
dirich_loglik(i, obs) ==
    /\ dirich_valid(heap, obj[i])
    /\ LET pi    == heap[obj[i].pi]
           alpha == obj[i].alpha
           ix    == IF obs.given THEN obs.val ELSE [k \in 1..obj[i].dim |-> k]
           val   == IF isfinite(alpha)
                    THEN [k \in DOMAIN ix |->
                             IF RLt(Zero, pi[ix[k]])
                             THEN LCSub(psi(RMul(alpha, pi[ix[k]])), psi(alpha))
                             ELSE LCConst(<<-1, 0>>)]
                    ELSE [k \in DOMAIN ix |-> log(pi[ix[k]])]
       IN  Finish(heap, obj, Ret("loglik", i, NoneVal, obs, "", val))
    /\ UNCHANGED ncall

\* v[ind]
Pick(v, ks) == [k \in DOMAIN ks |-> v[ks[k]]]

\* The closed form, on pa = post.alpha*post.pi[ind], qa = prior.alpha*prior.pi[ind].
dirich_div_closed(palpha, qalpha, pa, qa) ==
    LCAdd(LCSub(LCSub(gammaln(palpha), gammaln(qalpha)),
                LCSum([k \in DOMAIN pa |-> LCSub(gammaln(pa[k]), gammaln(qa[k]))])),
          LCSum([k \in DOMAIN pa |->
                    LCScale(RSub(pa[k], qa[k]), LCSub(psi(pa[k]), psi(palpha)))]))

dirich_div_on(post, prior, ks) ==
    [branch |-> "closed", ind |-> ks,
     val |-> dirich_div_closed(post.alpha, prior.alpha, VScale(post.alpha, Pick(post.pi, ks)),
                               VScale(prior.alpha, Pick(prior.pi, ks)))]

\* A faulty div, which DirichDivNeedsSameSupport tells from the one of the
\* code: the supports are not compared.
dirich_div_unsupported(post, prior) ==
    IF isfinite(post.alpha) /\ isfinite(prior.alpha)
    THEN dirich_div_on(post, prior, where(Support(post.pi)))
    ELSE IF isinf(post.alpha) /\ isinf(prior.alpha) /\ post.pi = prior.pi
    THEN [branch |-> "equal", ind |-> <<>>, val |-> LCZero]
    ELSE [branch |-> "singular", ind |-> <<>>, val |-> LCInf]

\* The branch div takes, the coordinates the closed form runs over, and
\* the value returned.
dirich_div_value(post, prior) ==
    IF isfinite(post.alpha) /\ isfinite(prior.alpha)
    THEN IF Support(post.pi) # Support(prior.pi)
         THEN [branch |-> "support", ind |-> <<>>, val |-> LCInf]
         ELSE dirich_div_on(post, prior, where(Support(post.pi)))
    ELSE IF isinf(post.alpha) /\ isinf(prior.alpha) /\ post.pi = prior.pi
    THEN [branch |-> "equal", ind |-> <<>>, val |-> LCZero]
    ELSE [branch |-> "singular", ind |-> <<>>, val |-> LCInf]

dirich_div_return(i, j, d) ==
    Finish(heap, obj, Ret("div", i, j, [branch |-> d.branch, ind |-> d.ind], "", d.val))

dirich_div(i, j) ==
    /\ dirich_valid(heap, obj[i])
    /\ IF ~(obj[j].cls = "dirich" /\ obj[j].dim = obj[i].dim)
       THEN Raise("div", i, j, <<>>, "AssertionError")
       ELSE /\ dirich_valid(heap, obj[j])
            /\ dirich_div_return(i, j, dirich_div_value(dirich_param(heap, obj[i]),
                                                        dirich_param(heap, obj[j])))
    /\ UNCHANGED ncall

dirich_stat(i, evidence) ==
    /\ dirich_valid(heap, obj[i])
    /\ IF ~dirich_stat_asserts(obj[i].dim, evidence)
       THEN Raise("stat", i, NoneVal, evidence, "AssertionError")
       ELSE Finish(heap, obj, Ret("stat", i, NoneVal, evidence, "",
                                  dirich_stat_value(obj[i].dim, evidence)))
    /\ UNCHANGED ncall

\* Two records of dirich.stat added field by field.
dirich_add(s1, s2) == [pi |-> VAdd(s1.pi, s2.pi), alpha |-> RAdd(s1.alpha, s2.alpha)]

\* The caller's sharded reduction: stat on evidence[1..cut] and on the rest,
\* each by instance i, and the two records added field by field.
dirich_stat_shards(i, evidence, cut) ==
    /\ dirich_valid(heap, obj[i])
    /\ dirich_stat_asserts(obj[i].dim, evidence)
    /\ cut \in 1..(Len(evidence) - 1)
    /\ Finish(heap, obj,
              Ret("stat.reduce", i, NoneVal, evidence, "",
                  dirich_add(dirich_stat_value(obj[i].dim, SubSeq(evidence, 1, cut)),
                             dirich_stat_value(obj[i].dim,
                                               SubSeq(evidence, cut + 1, Len(evidence))))))
    /\ UNCHANGED ncall

\* The record the caller holds after stat, as an argument of update.
HeldStat ==
    IF ret.op \in {"stat", "stat.reduce"} /\ ret.raised = ""
    THEN {[cls |-> obj[ret.self].cls, rec |-> ret.val]}
    ELSE {}

\* Records the caller writes itself: all zeros, and one that no evidence
\* gives (its alpha is not the sum of its pi).
DirichStats(dim) ==
    {[cls |-> "dirich", rec |-> [pi |-> zeros(dim), alpha |-> Zero]],
     [cls |-> "dirich", rec |-> [pi |-> [k \in 1..dim |-> IF k = 1 THEN One ELSE Zero],
                                 alpha |-> I(2)]]}

\* self.__param__.pi = pi, a new array, and self.__param__.alpha = alpha.
dirich_update_store(i, stat, p, n) ==
    Finish(n.heap, [obj EXCEPT ![i].pi = n.addr, ![i].alpha = p.alpha],
           Ret("update", i, NoneVal, stat, "", i))

dirich_update_new(i, stat, p) == dirich_update_store(i, stat, p, NewArray(heap, p.pi))

dirich_update(i, stat) ==
    /\ ncall < MaxCalls
    /\ dirich_valid(heap, obj[i])
    /\ IF ~(stat.cls = "dirich" /\ Len(stat.rec.pi) = obj[i].dim)
       THEN Raise("update", i, NoneVal, stat, "AssertionError") /\ UNCHANGED ncall
       ELSE /\ IF isinf(obj[i].alpha)
               THEN Finish(heap, obj, Ret("update", i, NoneVal, stat, "", NoneVal))
               ELSE dirich_update_new(i, stat,
                                      dirich_update_value(dirich_param(heap, obj[i]), stat.rec))
            /\ ncall' = ncall + 1

-----------------------------------------------------------------------------
(* Square roots, Cholesky factors and triangular solves, exactly where the *)
(* result is rational.                                                     *)

IsSquare(n) == n >= 0 /\ \E r \in 0..n : r * r = n

ISqrt(n) == CHOOSE r \in 0..n : r * r = n

\* sqrt(x) is rational: x is a finite fraction of two squares.
HasSqrt(x) == isfinite(x) /\ IsSquare(x[1]) /\ IsSquare(x[2])

RSqrt(x) == <<ISqrt(x[1]), ISqrt(x[2])>>

\* linalg.cholesky(a): the lower factor, from the lower triangle of a.
\* CholSq(a, i) is what the square root of entry (i, i) is taken of.
RECURSIVE CholEntry(_, _, _)
CholEntry(a, i, j) ==
    LET s == VSum([k \in 1..(j - 1) |-> RMul(CholEntry(a, i, k), CholEntry(a, j, k))])
    IN  IF j > i THEN Zero
        ELSE IF j = i THEN RSqrt(RSub(a[i][i], s))
        ELSE RDiv(RSub(a[i][j], s), CholEntry(a, j, j))

CholSq(a, i) == RSub(a[i][i], VSum(VSq([k \in 1..(i - 1) |-> CholEntry(a, i, k)])))

IsPosSquare(x) == RLt(Zero, x) /\ HasSqrt(x)

\* The factor exists (no LinAlgError) and is rational.
RECURSIVE HasCholUpTo(_, _)
HasCholUpTo(a, n) ==
    IF n = 0 THEN TRUE ELSE HasCholUpTo(a, n - 1) /\ IsPosSquare(CholSq(a, n))

HasChol(a) == HasCholUpTo(a, Len(a))

cholesky(a) == [i \in DOMAIN a |-> [j \in DOMAIN a |-> CholEntry(a, i, j)]]

\* linalg.solve(fact, b) for a lower triangular fact and a vector b.
RECURSIVE SolveEntry(_, _, _)
SolveEntry(fact, b, i) ==
    RDiv(RSub(b[i], VSum([k \in 1..(i - 1) |-> RMul(fact[i][k], SolveEntry(fact, b, k))])),
         fact[i][i])

solve_vec(fact, b) == [i \in DOMAIN b |-> SolveEntry(fact, b, i)]

\* linalg.solve(fact, b) for a matrix b: column by column.
solve(fact, b) == MT([c \in 1..NCols(b) |-> solve_vec(fact, MT(b)[c])])

\* The sum of the squares of all entries: (np.abs(m)**2).sum().
SumSq(m) == VSum([r \in DOMAIN m |-> VSum(VSq(m[r]))])

RECURSIVE Det(_)
Det(m) ==
    IF Len(m) = 1 THEN m[1][1]
    ELSE LET minor(c) == [r \in 1..(Len(m) - 1) |->
                             [k \in 1..(Len(m) - 1) |->
                                 m[r + 1][IF k < c THEN k ELSE k + 1]]]
         IN  VSum([c \in 1..Len(m) |->
                      RMul(RMul(I(IF c % 2 = 1 THEN 1 ELSE -1), m[1][c]), Det(minor(c)))])

\* (linalg.eigvals(sigma) > 0.0).all() for a symmetric sigma: every leading
\* principal minor is positive.
PosDef(m) ==
    \A n \in 1..Len(m) : RLt(Zero, Det([r \in 1..n |-> [c \in 1..n |-> m[r][c]]]))

-----------------------------------------------------------------------------
(* gaussgamma and gausswish: validation.                                   *)

IsGauss(cls) == cls \in {"gaussgamma", "gausswish"}

\* The assertions of the mu, omega, sigma and eta setters.
mu_asserts(dim, mu) ==
    /\ Len(mu) = dim
    /\ \A k \in DOMAIN mu : isfinite(mu[k])

omega_asserts(omega) == (~isnan(omega)) /\ RLt(Zero, omega)

gaussgamma_sigma_asserts(dim, sigma) ==
    /\ Len(sigma) = dim
    /\ \A k \in DOMAIN sigma : isfinite(sigma[k]) /\ RLt(Zero, sigma[k])

\* np.allclose(sigma.T, sigma) is sigma.T = sigma for the fractions of this
\* model.
gausswish_sigma_asserts(dim, sigma) ==
    /\ Len(sigma) = dim
    /\ \A r \in DOMAIN sigma : Len(sigma[r]) = dim
    /\ \A r \in DOMAIN sigma : \A c \in DOMAIN sigma[r] : isfinite(sigma[r][c])
    /\ MT(sigma) = sigma
    /\ PosDef(sigma)

gaussgamma_eta_asserts(eta) == (~isnan(eta)) /\ RLt(Zero, eta)

gausswish_eta_asserts(dim, eta) == (~isnan(eta)) /\ RLt(I(dim - 1), eta)

gaussgamma_valid(h, g) ==
    /\ g.cls = "gaussgamma"
    /\ mu_asserts(g.dim, h[g.mu])
    /\ omega_asserts(g.omega)
    /\ gaussgamma_sigma_asserts(g.dim, h[g.sigma])
    /\ gaussgamma_eta_asserts(g.eta)

gausswish_valid(h, g) ==
    /\ g.cls = "gausswish"
    /\ mu_asserts(g.dim, h[g.mu])
    /\ omega_asserts(g.omega)
    /\ gausswish_sigma_asserts(g.dim, h[g.sigma])
    /\ gausswish_eta_asserts(g.dim, g.eta)

\* The instance holds what the setters of its class accept.
Valid(h, x) ==
    IF x.cls = "dirich" THEN dirich_valid(h, x)
    ELSE IF x.cls = "gaussgamma" THEN gaussgamma_valid(h, x)
    ELSE gausswish_valid(h, x)

-----------------------------------------------------------------------------
(* gaussgamma and gausswish: construction, setters, copy.  Where the two   *)
(* classes repeat the same lines, one definition takes the class.          *)

gauss_init(cls, i, dim, mu, omega, sigma, eta) ==
    /\ ncall < MaxCalls
    /\ dim > 0
    /\ LET mu0    == IF mu.given THEN mu.val ELSE zeros(dim)
           omega0 == IF omega.given THEN omega.val ELSE One
           sigma0 == IF sigma.given THEN sigma.val
                     ELSE IF cls = "gaussgamma" THEN ones(dim) ELSE eye(dim)
           eta0   == IF eta.given THEN eta.val
                     ELSE IF cls = "gaussgamma" THEN One ELSE I(dim)
           n1     == NewArray(heap, mu0)
           n2     == NewArray(n1.heap, sigma0)
       IN  Finish(n2.heap, [obj EXCEPT ![i] = Gauss(cls, dim, n1.addr, omega0, n2.addr, eta0)],
                  Ret("__init__", i, NoneVal, <<dim, mu, omega, sigma, eta>>, "", NoneVal))
    /\ ncall' = ncall + 1

gaussgamma_init(i, dim, mu, omega, sigma, eta) ==
    gauss_init("gaussgamma", i, dim, mu, omega, sigma, eta)

gausswish_init(i, dim, mu, omega, sigma, eta) ==
    gauss_init("gausswish", i, dim, mu, omega, sigma, eta)

\* i = cls(j.dim, j.mu, j.omega, j.sigma, j.eta): the getters of j return
\* the arrays of j.
gauss_init_from(cls, i, j) ==
    /\ ncall < MaxCalls
    /\ i # j
    /\ obj[j].cls = cls
    /\ Finish(heap, [obj EXCEPT ![i] = obj[j]], Ret("__init__", i, j, <<>>, "", NoneVal))
    /\ ncall' = ncall + 1

gaussgamma_init_from(i, j) == gauss_init_from("gaussgamma", i, j)

gausswish_init_from(i, j) == gauss_init_from("gausswish", i, j)

\* A setter of an array attribute f: the assertion, then np.copy.
SetArray(i, f, v, ok) ==
    IF ok
    THEN LET n == NewArray(heap, v)
         IN  /\ Finish(n.heap, [obj EXCEPT ![i][f] = n.addr],
                       Ret(f \o ".setter", i, NoneVal, v, "", NoneVal))
             /\ ncall' = ncall + 1
    ELSE Raise(f \o ".setter", i, NoneVal, v, "AssertionError") /\ UNCHANGED ncall

\* A setter of a scalar attribute f: the assertion, then float(v).
SetScalar(i, f, v, ok) ==
    IF ok
    THEN /\ Finish(heap, [obj EXCEPT ![i][f] = v], Ret(f \o ".setter", i, NoneVal, v, "", NoneVal))
         /\ ncall' = ncall + 1
    ELSE Raise(f \o ".setter", i, NoneVal, v, "AssertionError") /\ UNCHANGED ncall

gaussgamma_set_mu(i, mu) ==
    /\ ncall < MaxCalls /\ obj[i].cls = "gaussgamma"
    /\ SetArray(i, "mu", mu, mu_asserts(obj[i].dim, mu))

gaussgamma_set_omega(i, omega) ==
    /\ ncall < MaxCalls /\ obj[i].cls = "gaussgamma"
    /\ SetScalar(i, "omega", omega, omega_asserts(omega))

gaussgamma_set_sigma(i, sigma) ==
    /\ ncall < MaxCalls /\ obj[i].cls = "gaussgamma"
    /\ SetArray(i, "sigma", sigma, gaussgamma_sigma_asserts(obj[i].dim, sigma))

gaussgamma_set_eta(i, eta) ==
    /\ ncall < MaxCalls /\ obj[i].cls = "gaussgamma"
    /\ SetScalar(i, "eta", eta, gaussgamma_eta_asserts(eta))

gausswish_set_mu(i, mu) ==
    /\ ncall < MaxCalls /\ obj[i].cls = "gausswish"
    /\ SetArray(i, "mu", mu, mu_asserts(obj[i].dim, mu))

gausswish_set_omega(i, omega) ==
    /\ ncall < MaxCalls /\ obj[i].cls = "gausswish"
    /\ SetScalar(i, "omega", omega, omega_asserts(omega))

gausswish_set_sigma(i, sigma) ==
    /\ ncall < MaxCalls /\ obj[i].cls = "gausswish"
    /\ SetArray(i, "sigma", sigma, gausswish_sigma_asserts(obj[i].dim, sigma))

gausswish_set_eta(i, eta) ==
    /\ ncall < MaxCalls /\ obj[i].cls = "gausswish"
    /\ SetScalar(i, "eta", eta, gausswish_eta_asserts(obj[i].dim, eta))

\* x[:] = y for the sigma of the class: a vector, or a matrix of one shape.
CanAssignSigma(cls, x, y) ==
    IF cls = "gaussgamma" THEN CanAssign(x, y)
    ELSE Len(x) = Len(y) /\ \A r \in DOMAIN x : Len(x[r]) = Len(y[r])

AssignedSigma(cls, x, y) == IF cls = "gaussgamma" THEN Assigned(x, y) ELSE y

\* copy writes mu, omega, sigma, eta in this order: an assignment that
\* fails leaves the earlier ones done.
gauss_copy(cls, i, j) ==
    /\ ncall < MaxCalls
    /\ obj[i].cls = cls
    /\ IF ~(obj[j].cls = cls /\ obj[j].dim = obj[i].dim)
       THEN Raise("copy", i, j, <<>>, "AssertionError") /\ UNCHANGED ncall
       ELSE IF ~CanAssign(heap[obj[i].mu], heap[obj[j].mu])
       THEN Raise("copy", i, j, <<>>, "ValueError") /\ UNCHANGED ncall
       ELSE LET h1 == Store(heap, obj[i].mu, Assigned(heap[obj[i].mu], heap[obj[j].mu]))
                o1 == [obj EXCEPT ![i].omega = obj[j].omega]
            IN  /\ IF ~CanAssignSigma(cls, h1[obj[i].sigma], h1[obj[j].sigma])
                   THEN Finish(h1, o1, Ret("copy", i, j, <<>>, "ValueError", NoneVal))
                   ELSE Finish(Store(h1, obj[i].sigma,
                                     AssignedSigma(cls, h1[obj[i].sigma], h1[obj[j].sigma])),
                               [o1 EXCEPT ![i].eta = obj[j].eta],
                               Ret("copy", i, j, <<>>, "", i))
                /\ ncall' = ncall + 1

gaussgamma_copy(i, j) == gauss_copy("gaussgamma", i, j)

gausswish_copy(i, j) == gauss_copy("gausswish", i, j)

-----------------------------------------------------------------------------
(* gaussgamma and gausswish: rand and loglik.                              *)

\* sqrt(x)/sqrt(y), an atom where it is not rational.
sqrt_ratio(x, y) ==
    IF HasSqrt(x) /\ HasSqrt(y) THEN LCConst(RDiv(RSqrt(x), RSqrt(y)))
    ELSE (<<"sqrt", RDiv(x, y)>> :> One)

\* Draws of random.randn, one per coordinate.
NormalDraws(dim) == {zeros(dim), [k \in 1..dim |-> I(2 * k - 3)]}

\* disp: sigma/(random.gamma(eta/2.0, size=dim)/(eta/2.0)) with the draws g,
\* or np.copy(sigma).
gaussgamma_rand_disp(i, g, p) ==
    IF isfinite(p.eta)
    THEN NewArray(heap, [k \in DOMAIN p.sigma |->
                            RDiv(p.sigma[k], RDiv(g[k], RDiv(p.eta, I(2))))])
    ELSE np_copy(heap, obj[i].sigma)

\* loc: mu + (np.sqrt(disp)*random.randn(dim))/math.sqrt(omega) with the
\* draws z, or np.copy(mu); n is disp.
gaussgamma_rand_loc(i, z, p, n) ==
    IF isfinite(p.omega)
    THEN NewArray(n.heap, [k \in DOMAIN p.mu |->
                              LCAdd(LCConst(p.mu[k]),
                                    LCScale(z[k], sqrt_ratio(n.heap[n.addr][k], p.omega)))])
    ELSE np_copy(n.heap, obj[i].mu)

\* return loc, disp
gauss_rand_return(i, arg, disp, n) ==
    Finish(n.heap, obj,
           Ret("rand", i, NoneVal, arg, "", [loc |-> n.heap[n.addr], disp |-> disp]))

gaussgamma_rand_from(i, g, z, p, n) ==
    gauss_rand_return(i, <<g, z>>, n.heap[n.addr], gaussgamma_rand_loc(i, z, p, n))

\* g: the draws of random.gamma, z: the draws of random.randn.
gaussgamma_rand(i, g, z) ==
    /\ gaussgamma_valid(heap, obj[i])
    /\ gaussgamma_rand_from(i, g, z, gauss_param(heap, obj[i]),
                            gaussgamma_rand_disp(i, g, gauss_param(heap, obj[i])))
    /\ UNCHANGED ncall

\* The sample of the Wishart and of the Gauss part is not a rational
\* function of the draws: the value returned is "sample" where it is drawn,
\* and the copy the code makes where it is not.
gausswish_rand_disp(i, p) ==
    IF isfinite(p.eta) THEN NewArray(heap, <<"sample">>) ELSE np_copy(heap, obj[i].sigma)

gausswish_rand_loc(i, p, n) ==
    IF isfinite(p.omega) THEN NewArray(n.heap, <<"sample">>) ELSE np_copy(n.heap, obj[i].mu)

gausswish_rand_from(i, p, n) ==
    gauss_rand_return(i, <<>>, n.heap[n.addr], gausswish_rand_loc(i, p, n))

gausswish_rand(i) ==
    /\ gausswish_valid(heap, obj[i])
    /\ gausswish_rand_from(i, gauss_param(heap, obj[i]),
                           gausswish_rand_disp(i, gauss_param(heap, obj[i])))
    /\ UNCHANGED ncall

\* The names loglik can read: its parameters and locals, and the names of
\* the module.  Reading any other name raises NameError.
loglik_names ==
    {"self", "obs", "nu", "dim", "size", "mu", "omega", "sigma", "eta", "fact", "sqerr",
     "logdet", "const", "math", "np", "linalg", "random", "special",
     "dirich", "gaussgamma", "gausswish"}

\* sqerr, one per observation: the column sums of x, and dim/omega added if
\* omega is finite.
sqerr_sum(x, dim, omega) ==
    [j \in 1..NCols(x) |->
        LET e == VSum([k \in 1..dim |-> x[k][j]])
        IN  IF isfinite(omega) THEN RAdd(e, RDiv(I(dim), omega)) ELSE e]

\* (np.abs(obs-mu[:, np.newaxis])**2)/sigma[:, np.newaxis]
gaussgamma_sqerr(p, dim, obs) ==
    sqerr_sum([k \in 1..dim |-> VDivS(VSq(Centre(obs, p.mu)[k]), p.sigma[k])], dim, p.omega)

\* np.abs(linalg.solve(fact, obs-mu[:, np.newaxis]))**2
gausswish_sqerr(p, dim, obs) ==
    sqerr_sum([k \in 1..dim |-> VSq(solve(cholesky(p.sigma), Centre(obs, p.mu))[k])],
              dim, p.omega)

\* logdet: a sequence of one value if it is a scalar, of dim values if it
\* is an array.  gaussgamma adds psi(...)/2.0, an array of dim values, to
\* the scalar; gausswish adds its sum.
gaussgamma_logdet_from(base, dim, eta) ==
    IF isfinite(eta)
    THEN [k \in 1..dim |->
             LCSub(LCAdd(base, LCScale(R(dim, 2), log(RDiv(eta, I(2))))),
                   LCScale(R(1, 2), psi(RDiv(RSub(eta, I(k - 1)), I(2)))))]
    ELSE <<base>>

gaussgamma_logdet(p, dim) ==
    gaussgamma_logdet_from(LCScale(R(1, 2), LCSum([k \in 1..dim |-> log(p.sigma[k])])),
                           dim, p.eta)

\* np.log(np.diag(fact)).sum()
logdiag(fact) == LCSum([k \in DOMAIN fact |-> log(fact[k][k])])

gausswish_logdet_from(base, dim, eta) ==
    IF isfinite(eta)
    THEN <<LCSub(LCAdd(base, LCScale(R(dim, 2), log(RDiv(eta, I(2))))),
                 LCScale(R(1, 2),
                         LCSum([k \in 1..dim |-> psi(RDiv(RSub(eta, I(k - 1)), I(2)))])))>>
    ELSE <<base>>

gausswish_logdet(p, dim) == gausswish_logdet_from(logdiag(cholesky(p.sigma)), dim, p.eta)

\* -(numdim/2.0)*math.log(2.0*math.pi)-logdet-sqerr/2.0
loglik_gauss(dim, sqerr, logdet) ==
    [j \in DOMAIN sqerr |->
        LCSub(LCSub(LCScale(R(-dim, 2), (<<"log2pi", One>> :> One)), logdet[1]),
              LCConst(RDiv(sqerr[j], I(2))))]

\* const, of as many values as logdet.
loglik_const(dim, nu, logdet) ==
    [k \in DOMAIN logdet |->
        LCAdd(LCAdd(LCSub(gammaln(RDiv(nu, I(2))), gammaln(RDiv(RAdd(nu, I(dim)), I(2)))),
                    LCScale(R(dim, 2), (<<"logpi*", nu>> :> One))),
              logdet[k])]

\* ((nu+dim)/2.0)*np.log1p(sqerr/nu)
loglik_log1p(dim, nu, sqerr) ==
    [j \in DOMAIN sqerr |->
        LCScale(RDiv(RAdd(nu, I(dim)), I(2)),
                IF sqerr[j] = Zero THEN LCZero ELSE (<<"log1p", RDiv(sqerr[j], nu)>> :> One))]

\* (nu+dim)/(nu+sqerr)
loglik_weight(dim, nu, sqerr) ==
    [j \in DOMAIN sqerr |-> RDiv(RAdd(nu, I(dim)), RAdd(nu, sqerr[j]))]

\* -const-term, of arrays of Len(const) and Len(term) values, as numpy
\* broadcasts them.
loglik_student(const, term, weight) ==
    IF Len(const) # 1 /\ Len(term) # 1 /\ Len(const) # Len(term)
    THEN [raised |-> "ValueError", val |-> <<>>, weight |-> <<>>]
    ELSE [raised |-> "",
          val |-> [j \in 1..(IF Len(term) = 1 THEN Len(const) ELSE Len(term)) |->
                      LCSub(LCScale(I(-1), const[IF Len(const) = 1 THEN 1 ELSE j]),
                            term[IF Len(term) = 1 THEN 1 ELSE j])],
          weight |-> weight]

\* The return statements of loglik, shared by the two classes: the
\* exception raised ("" if none), the log-densities and the weights.
loglik_return(dim, size, nu, sqerr, logdet) ==
    IF ~nu.given \/ isinf(nu.val)
    THEN IF "numdim" \notin loglik_names
         THEN [raised |-> "NameError", val |-> <<>>, weight |-> <<>>]
         ELSE [raised |-> "", val |-> loglik_gauss(dim, sqerr, logdet),
               weight |-> IF nu.given THEN ones(size) ELSE <<>>]
    ELSE loglik_student(loglik_const(dim, nu.val, logdet), loglik_log1p(dim, nu.val, sqerr),
                        loglik_weight(dim, nu.val, sqerr))

gauss_loglik_return(i, arg, r) ==
    Finish(heap, obj, Ret("loglik", i, NoneVal, arg, r.raised,
                          IF r.raised = "" THEN [val |-> r.val, weight |-> r.weight]
                          ELSE NoneVal))

gaussgamma_loglik(i, obs, nu) ==
    /\ gaussgamma_valid(heap, obj[i])
    /\ IF NRows(obs) # obj[i].dim
       THEN Raise("loglik", i, NoneVal, <<obs, nu>>, "AssertionError")
       ELSE gauss_loglik_return(
                i, <<obs, nu>>,
                loglik_return(obj[i].dim, NCols(obs), nu,
                              gaussgamma_sqerr(gauss_param(heap, obj[i]), obj[i].dim, obs),
                              gaussgamma_logdet(gauss_param(heap, obj[i]), obj[i].dim)))
    /\ UNCHANGED ncall

gausswish_loglik(i, obs, nu) ==
    /\ gausswish_valid(heap, obj[i])
    /\ HasChol(heap[obj[i].sigma])
    /\ IF NRows(obs) # obj[i].dim
       THEN Raise("loglik", i, NoneVal, <<obs, nu>>, "AssertionError")
       ELSE gauss_loglik_return(
                i, <<obs, nu>>,
                loglik_return(obj[i].dim, NCols(obs), nu,
                              gausswish_sqerr(gauss_param(heap, obj[i]), obj[i].dim, obs),
                              gausswish_logdet(gauss_param(heap, obj[i]), obj[i].dim)))
    /\ UNCHANGED ncall

-----------------------------------------------------------------------------
(* gaussgamma and gausswish: div.                                          *)

\* A faulty closed form, which DivIsReflexive tells from the one of the
\* code: the term -1 is left out.
gauss_closed_shifted(dim, r, qomega, sq) ==
    LCAdd(LCScale(R(dim, 2), LCSub(LCConst(r), log(r))),
          LCConst(RMul(RDiv(qomega, I(2)), sq)))

\* The first if of div, the same lines in both classes but for the squared
\* distance sq of the means: the branch taken and the value of div.
gauss_closed(dim, r, qomega, sq) ==
    LCAdd(LCScale(R(dim, 2), LCSub(LCSub(LCConst(r), log(r)), LCConst(One))),
          LCConst(RMul(RDiv(qomega, I(2)), sq)))

\* A faulty first if, which DivDegenerateRule tells from the one of the
\* code: the means of two singular instances are not compared.
gauss_part_uncompared(dim, post, prior, sq) ==
    IF isfinite(post.omega) /\ isfinite(prior.omega)
    THEN [branch |-> "closed",
          val |-> gauss_closed(dim, RDiv(prior.omega, post.omega), prior.omega, sq)]
    ELSE IF isinf(post.omega) /\ isinf(prior.omega)
    THEN [branch |-> "equal", val |-> LCZero]
    ELSE [branch |-> "singular", val |-> LCInf]

gauss_part(dim, post, prior, sq) ==
    IF isfinite(post.omega) /\ isfinite(prior.omega)
    THEN [branch |-> "closed",
          val |-> gauss_closed(dim, RDiv(prior.omega, post.omega), prior.omega, sq)]
    ELSE IF isinf(post.omega) /\ isinf(prior.omega) /\ post.mu = prior.mu
    THEN [branch |-> "equal", val |-> LCZero]
    ELSE [branch |-> "singular", val |-> LCInf]

\* The second if of div: g is what the first left, closed the value of the
\* return statement of the branch where both eta are finite.
second_part(g, post, prior, closed) ==
    IF g.branch = "singular"
    THEN [gauss |-> g.branch, second |-> "", val |-> LCInf]
    ELSE IF isfinite(post.eta) /\ isfinite(prior.eta)
    THEN [gauss |-> g.branch, second |-> "closed", val |-> LCAdd(g.val, closed)]
    ELSE IF isinf(post.eta) /\ isinf(prior.eta) /\ post.sigma = prior.sigma
    THEN [gauss |-> g.branch, second |-> "equal", val |-> g.val]
    ELSE [gauss |-> g.branch, second |-> "singular", val |-> LCInf]

\* x*log(x), as dim*(eta/2.0)*math.log(eta/2.0) uses it.
XLogX(dim, x) == LCScale(RMul(I(dim), x), log(x))

\* The terms gaussgamma.div adds to div, with ph = post.eta/2.0,
\* qh = prior.eta/2.0, ratio = (prior.sigma/post.sigma).sum() and the
\* log-determinants pdet, qdet.
gamma_closed(dim, ph, qh, ratio, pdet, qdet) ==
    LCSum(<<LCConst(RNeg(RMul(ph, I(dim)))),
            LCConst(RMul(qh, ratio)),
            LCScale(RSub(qh, ph), LCAdd(pdet, LCScale(I(dim), LCSub(log(ph), psi(ph))))),
            LCScale(RNeg(qh), qdet),
            LCScale(ph, pdet),
            LCScale(I(dim), gammaln(qh)),
            LCScale(I(-dim), gammaln(ph)),
            LCScale(I(-1), XLogX(dim, qh)),
            XLogX(dim, ph)>>)

\* np.log(sigma).sum()
logsum(sigma) == LCSum([k \in DOMAIN sigma |-> log(sigma[k])])

\* ((np.abs(post.mu-prior.mu)**2)/post.sigma).sum()
gaussgamma_div_sq(post, prior) ==
    VSum([k \in DOMAIN post.mu |-> RDiv(VSq(VSub(post.mu, prior.mu))[k], post.sigma[k])])

gaussgamma_div_value(dim, post, prior) ==
    second_part(gauss_part(dim, post, prior, gaussgamma_div_sq(post, prior)), post, prior,
                gamma_closed(dim, RDiv(post.eta, I(2)), RDiv(prior.eta, I(2)),
                             VSum([k \in DOMAIN post.sigma |->
                                      RDiv(prior.sigma[k], post.sigma[k])]),
                             logsum(post.sigma), logsum(prior.sigma)))

\* The sum over k < dim of f((eta - k)/2.0).
LCSumHalf(f(_), dim, eta) == LCSum([k \in 1..dim |-> f(RDiv(RSub(eta, I(k - 1)), I(2)))])

\* The terms gausswish.div adds to div, with trace =
\* (np.abs(linalg.solve(post.fact, prior.fact))**2).sum() and the halves of
\* the log-determinants pdet, qdet.
wishart_closed(dim, peta, qeta, trace, pdet, qdet) ==
    LCSum(<<LCConst(RNeg(RMul(RDiv(peta, I(2)), I(dim)))),
            LCConst(RMul(RDiv(qeta, I(2)), trace)),
            LCScale(RSub(qeta, peta),
                    LCAdd(pdet, LCSub(LCScale(R(dim, 2), log(RDiv(peta, I(2)))),
                                      LCScale(R(1, 2), LCSumHalf(psi, dim, peta))))),
            LCScale(RNeg(qeta), qdet),
            LCScale(peta, pdet),
            LCSumHalf(gammaln, dim, qeta),
            LCScale(I(-1), LCSumHalf(gammaln, dim, peta)),
            LCScale(I(-1), XLogX(dim, RDiv(qeta, I(2)))),
            XLogX(dim, RDiv(peta, I(2)))>>)

\* pfact, qfact: the Cholesky factors of post.sigma and prior.sigma.
gausswish_div_fact(dim, post, prior, pfact, qfact) ==
    second_part(gauss_part(dim, post, prior,
                           VSum(VSq(solve_vec(pfact, VSub(post.mu, prior.mu))))),
                post, prior,
                wishart_closed(dim, post.eta, prior.eta, SumSq(solve(pfact, qfact)),
                               logdiag(pfact), logdiag(qfact)))

gausswish_div_value(dim, post, prior) ==
    gausswish_div_fact(dim, post, prior, cholesky(post.sigma), cholesky(prior.sigma))

gauss_div_return(i, j, d) ==
    Finish(heap, obj, Ret("div", i, j, [gauss |-> d.gauss, second |-> d.second], "", d.val))

gaussgamma_div(i, j) ==
    /\ gaussgamma_valid(heap, obj[i])
    /\ IF ~(obj[j].cls = "gaussgamma" /\ obj[j].dim = obj[i].dim)
       THEN Raise("div", i, j, <<>>, "AssertionError")
       ELSE /\ gaussgamma_valid(heap, obj[j])
            /\ gauss_div_return(i, j, gaussgamma_div_value(obj[i].dim, gauss_param(heap, obj[i]),
                                                           gauss_param(heap, obj[j])))
    /\ UNCHANGED ncall

gausswish_div(i, j) ==
    /\ gausswish_valid(heap, obj[i])
    /\ HasChol(heap[obj[i].sigma])
    /\ IF ~(obj[j].cls = "gausswish" /\ obj[j].dim = obj[i].dim)
       THEN Raise("div", i, j, <<>>, "AssertionError")
       ELSE /\ gausswish_valid(heap, obj[j])
            /\ HasChol(heap[obj[j].sigma])
            /\ gauss_div_return(i, j, gausswish_div_value(obj[i].dim, gauss_param(heap, obj[i]),
                                                          gauss_param(heap, obj[j])))
    /\ UNCHANGED ncall

-----------------------------------------------------------------------------
(* gaussgamma and gausswish: stat and update.                              *)


\* ref = self.__param__.mu.copy() is a new array c, and "ref -= ..." writes
\* into it; stat is the record returned.
gauss_stat_return(i, arg, c, stat) ==
    Finish(Store(c.heap, c.addr, stat_ref(c.heap[c.addr], stat)), obj,
           Ret("stat", i, NoneVal, arg, "", stat))

gaussgamma_stat(i, evidence, weighted, scaled) ==
    /\ gaussgamma_valid(heap, obj[i])
    /\ IF ~gauss_stat_asserts(obj[i].dim, evidence, weighted, scaled)
       THEN Raise("stat", i, NoneVal, <<evidence, weighted, scaled>>, "AssertionError")
       ELSE gauss_stat_return(i, <<evidence, weighted, scaled>>, np_copy(heap, obj[i].mu),
                              gaussgamma_stat_value(heap[obj[i].mu], obj[i].dim, evidence,
                                                    weighted, scaled))
    /\ UNCHANGED ncall

gausswish_stat(i, evidence, weighted, scaled) ==
    /\ gausswish_valid(heap, obj[i])
    /\ IF ~gauss_stat_asserts(obj[i].dim, evidence, weighted, scaled)
       THEN Raise("stat", i, NoneVal, <<evidence, weighted, scaled>>, "AssertionError")
       ELSE gauss_stat_return(i, <<evidence, weighted, scaled>>, np_copy(heap, obj[i].mu),
                              gausswish_stat_value(heap[obj[i].mu], obj[i].dim, evidence,
                                                   weighted, scaled))
    /\ UNCHANGED ncall

\* Two records of gaussgamma.stat, and of gausswish.stat, added field by
\* field.
gaussgamma_add(s1, s2) ==
    [mu |-> VAdd(s1.mu, s2.mu), omega |-> RAdd(s1.omega, s2.omega),
     sigma |-> VAdd(s1.sigma, s2.sigma), eta |-> RAdd(s1.eta, s2.eta)]

gausswish_add(s1, s2) ==
    [mu |-> VAdd(s1.mu, s2.mu), omega |-> RAdd(s1.omega, s2.omega),
     sigma |-> MAdd(s1.sigma, s2.sigma), eta |-> RAdd(s1.eta, s2.eta)]


\* The caller's sharded reduction: stat on evidence[1..cut] and on the rest,
\* each by instance i, and the two records added field by field.
gaussgamma_stat_shards(i, evidence, cut, weighted, scaled) ==
    /\ gaussgamma_valid(heap, obj[i])
    /\ gauss_stat_asserts(obj[i].dim, evidence, weighted, scaled)
    /\ cut \in 1..(Len(evidence) - 1)
    /\ Finish(heap, obj,
              Ret("stat.reduce", i, NoneVal, <<evidence, weighted, scaled>>, "",
                  gaussgamma_add(
                      gaussgamma_stat_value(heap[obj[i].mu], obj[i].dim,
                                            SubSeq(evidence, 1, cut), weighted, scaled),
                      gaussgamma_stat_value(heap[obj[i].mu], obj[i].dim,
                                            SubSeq(evidence, cut + 1, Len(evidence)),
                                            weighted, scaled))))
    /\ UNCHANGED ncall

gausswish_stat_shards(i, evidence, cut, weighted, scaled) ==
    /\ gausswish_valid(heap, obj[i])
    /\ gauss_stat_asserts(obj[i].dim, evidence, weighted, scaled)
    /\ cut \in 1..(Len(evidence) - 1)
    /\ Finish(heap, obj,
              Ret("stat.reduce", i, NoneVal, <<evidence, weighted, scaled>>, "",
                  gausswish_add(
                      gausswish_stat_value(heap[obj[i].mu], obj[i].dim,
                                           SubSeq(evidence, 1, cut), weighted, scaled),
                      gausswish_stat_value(heap[obj[i].mu], obj[i].dim,
                                           SubSeq(evidence, cut + 1, Len(evidence)),
                                           weighted, scaled))))
    /\ UNCHANGED ncall

\* The assertions of update on the class and the sizes of stat.mu and
\* stat.sigma.
gaussgamma_update_asserts(dim, stat) ==
    stat.cls = "gaussgamma" /\ Len(stat.rec.mu) = dim /\ Len(stat.rec.sigma) = dim

gausswish_update_asserts(dim, stat) ==
    /\ stat.cls = "gausswish" /\ Len(stat.rec.mu) = dim /\ Len(stat.rec.sigma) = dim
    /\ \A r \in DOMAIN stat.rec.sigma : Len(stat.rec.sigma[r]) = dim



\* self.__param__.f = v in the state s = [heap, obj]: the array at a new
\* address if the code made a new array, the array the instance had if not.
Rebind(s, i, f, fresh, v) ==
    IF fresh
    THEN LET n == NewArray(s.heap, v)
         IN  [heap |-> n.heap, obj |-> [s.obj EXCEPT ![i][f] = n.addr]]
    ELSE s

\* The four assignments that end update, and return self.
gauss_update_store(i, stat, p, s) ==
    Finish(s.heap, [s.obj EXCEPT ![i].omega = p.omega, ![i].eta = p.eta],
           Ret("update", i, NoneVal, stat, "", i))

\* mu is a new array if omega is finite, sigma if eta is finite.
gaussgamma_update_new(i, stat, old, p) ==
    gauss_update_store(i, stat, p,
                       Rebind(Rebind([heap |-> heap, obj |-> obj], i, "mu",
                                     isfinite(old.omega), p.mu),
                              i, "sigma", isfinite(old.eta), p.sigma))

\* sigma = sigma/2.0+(sigma/2.0).T is a new array in every case.
gausswish_update_new(i, stat, old, p) ==
    gauss_update_store(i, stat, p,
                       Rebind(Rebind([heap |-> heap, obj |-> obj], i, "mu",
                                     isfinite(old.omega), p.mu),
                              i, "sigma", TRUE, p.sigma))

gaussgamma_update(i, stat) ==
    /\ ncall < MaxCalls
    /\ gaussgamma_valid(heap, obj[i])
    /\ IF ~gaussgamma_update_asserts(obj[i].dim, stat)
       THEN Raise("update", i, NoneVal, stat, "AssertionError") /\ UNCHANGED ncall
       ELSE /\ IF isinf(obj[i].omega) /\ isinf(obj[i].eta)
               THEN Finish(heap, obj, Ret("update", i, NoneVal, stat, "", i))
               ELSE gaussgamma_update_new(
                        i, stat, gauss_param(heap, obj[i]),
                        gaussgamma_update_value(gauss_param(heap, obj[i]), stat.rec))
            /\ ncall' = ncall + 1

gausswish_update(i, stat) ==
    /\ ncall < MaxCalls
    /\ gausswish_valid(heap, obj[i])
    /\ IF ~gausswish_update_asserts(obj[i].dim, stat)
       THEN Raise("update", i, NoneVal, stat, "AssertionError") /\ UNCHANGED ncall
       ELSE /\ IF isinf(obj[i].omega) /\ isinf(obj[i].eta)
               THEN Finish(heap, obj, Ret("update", i, NoneVal, stat, "", NoneVal))
               ELSE gausswish_update_new(
                        i, stat, gauss_param(heap, obj[i]),
                        gausswish_update_value(gauss_param(heap, obj[i]), stat.rec))
            /\ ncall' = ncall + 1

-----------------------------------------------------------------------------
(* Inputs of the Gaussian families (dim 2).                                *)

Vec(x, y) == <<I(x), I(y)>>

Eye2 == eye(2)

\* Positive definite, with the rational Cholesky factor [[2,0],[1,1]].
Sigma2 == << Vec(4, 2), Vec(2, 2) >>

\* Observations: 2 x 2, 2 x 1, 2 x 3 and (the wrong dimension) 1 x 1.
ObsA == << Vec(0, 2), Vec(0, 0) >>

ObsB == << <<One>>, <<One>> >>

ObsD == << Vec(0, 2), Vec(1, 1) >>

ObsE == << <<Zero, One, I(2)>>, <<Zero, Zero, One>> >>

ObsC == << <<One>> >>

\* Items of evidence.  ItemB and ItemD have the mean [1,1] in every mode.
ItemA == [obs |-> ObsA, weight |-> <<One, R(1, 2)>>, scale |-> <<One, I(2)>>]

ItemB == [obs |-> ObsB, weight |-> <<R(1, 2)>>, scale |-> <<I(2)>>]

ItemD == [obs |-> ObsD, weight |-> <<R(1, 2), R(1, 2)>>, scale |-> <<I(2), I(2)>>]

ItemC == [obs |-> ObsC, weight |-> <<One>>, scale |-> <<One>>]

GaussEvidence == SeqsUpTo({ItemA, ItemB, ItemD}, MaxBatches) \cup {<<ItemC>>}

\* Records the caller writes itself: all zeros, one with every field
\* nonzero, and one of the wrong size.
GaussStats(cls, dim) ==
    {[cls |-> cls,
      rec |-> [mu |-> zeros(dim), omega |-> Zero,
               sigma |-> IF cls = "gaussgamma" THEN zeros(dim) ELSE zerosM(dim),
               eta |-> Zero]],
     [cls |-> cls,
      rec |-> [mu |-> [k \in 1..dim |-> I(2)], omega |-> I(2),
               sigma |-> IF cls = "gaussgamma" THEN [k \in 1..dim |-> I(k)]
                         ELSE [r \in 1..dim |-> [k \in 1..dim |-> IF r = k THEN I(3) ELSE One]],
               eta |-> I(2)]],
     [cls |-> cls,
      rec |-> [mu |-> zeros(dim + 1), omega |-> Zero,
               sigma |-> IF cls = "gaussgamma" THEN zeros(dim) ELSE zerosM(dim),
               eta |-> Zero]]}

\* Arguments of the constructors: dim, mu, omega, sigma, eta.
GaussgammaInitArgs ==
    {<<2, Default, Default, Default, Default>>,
     <<2, Given(Vec(1, 0)), Given(Inf), Given(Vec(1, 4)), Given(Inf)>>,
     <<2, Given(<<One>>), Default, Default, Default>>,
     <<2, Given(<<NaN, Zero>>), Default, Default, Default>>,
     <<2, Default, Given(I(-1)), Default, Default>>,
     <<2, Default, Default, Given(Vec(1, -1)), Default>>,
     <<2, Default, Default, Default, Given(Zero)>>}

GausswishInitArgs ==
    {<<2, Default, Default, Default, Default>>,
     <<2, Given(Vec(1, 0)), Given(Inf), Given(Sigma2), Given(Inf)>>,
     <<2, Given(<<One>>), Default, Default, Default>>,
     <<2, Default, Given(NaN), Default, Default>>,
     <<2, Default, Default, Given(<< Vec(1, 1), Vec(0, 1) >>), Default>>,
     <<2, Default, Default, Given(<< Vec(1, 2), Vec(2, 1) >>), Default>>,
     <<2, Default, Default, Default, Given(One)>>}

DirichInitArgs ==
    {<<3, Default, Default>>, <<3, Given(Half3), Given(Inf)>>,
     <<2, Given(<<One, One>>), Default>>, <<3, Given(<<R(1, 2), R(1, 2)>>), Default>>,
     <<3, Given(<<I(2), I(-1), Zero>>), Default>>,
     <<2, Default, Given(I(-1))>>, <<2, Default, Given(NaN)>>}

-----------------------------------------------------------------------------
(* The state after construction, and the calls.                            *)

Families == {"dirich", "gaussgamma", "gausswish"}

\* The arguments of a valid construction, as the values of the parameters.
Config(cls, dim, pi, alpha, mu, omega, sigma, eta) ==
    [cls |-> cls, dim |-> dim, pi |-> pi, alpha |-> alpha,
     mu |-> mu, omega |-> omega, sigma |-> sigma, eta |-> eta]

DefaultConfig(cls) ==
    IF cls = "dirich" THEN Config(cls, 3, Uniform3, One, <<>>, Zero, <<>>, Zero)
    ELSE IF cls = "gaussgamma" THEN Config(cls, 2, <<>>, Zero, zeros(2), One, ones(2), One)
    ELSE Config(cls, 2, <<>>, Zero, zeros(2), One, Eye2, I(2))

\* mu and sigma of the Gaussian families: the defaults, and others.
Shapes(cls) ==
    IF cls = "gaussgamma" THEN {<<zeros(2), ones(2)>>, <<Vec(1, 0), Vec(1, 4)>>}
    ELSE {<<zeros(2), Eye2>>, <<Vec(1, 0), Sigma2>>}

Configs(cls) ==
    IF cls = "dirich"
    THEN {Config(cls, 3, pi, alpha, <<>>, Zero, <<>>, Zero) :
             pi \in {Uniform3, Half3}, alpha \in {One, I(2), Inf}}
    ELSE {Config(cls, 2, <<>>, Zero, s[1], omega, s[2], eta) :
             s \in Shapes(cls), omega \in {One, I(2), Inf},
             eta \in {DefaultConfig(cls).eta, I(3), Inf}}

\* An instance constructed from c on the heap h: the constructor stores the
\* arrays it is given.
Construct(h, c) ==
    IF c.cls = "dirich"
    THEN LET n == NewArray(h, c.pi)
         IN  [heap |-> n.heap, inst |-> Dirich(c.dim, n.addr, c.alpha)]
    ELSE LET n1 == NewArray(h, c.mu)
             n2 == NewArray(n1.heap, c.sigma)
         IN  [heap |-> n2.heap, inst |-> Gauss(c.cls, c.dim, n1.addr, c.omega, n2.addr, c.eta)]

\* The instances a and b, constructed with the arguments ca and cb.
Built(na, nb) == [heap |-> nb.heap, obj |-> [i \in Insts |-> IF i = "a" THEN na.inst ELSE nb.inst]]

BuildOn(na, cb) == Built(na, Construct(na.heap, cb))

Build(ca, cb) == BuildOn(Construct(<<>>, ca), cb)

NoCall == Ret("", NoneVal, NoneVal, <<>>, "", NoneVal)

StartAt(s) ==
    /\ heap = CanonHeap(s.heap, s.obj)
    /\ obj = CanonObj(s.obj)
    /\ ret = NoCall
    /\ ncall = 0

Start(ca, cb) == StartAt(Build(ca, cb))

\* Two instances of one family, constructed with the defaults.
Init == \E cls \in Families : Start(DefaultConfig(cls), DefaultConfig(cls))

\* Two instances of one family in any of its parameter states (a with the
\* default mu and sigma, and the default or infinite omega and eta), or of
\* two families.
InitCall ==
    \/ \E cls \in Families : \E ca \in Configs(cls), cb \in Configs(cls) :
          /\ cls # "dirich" => /\ ca.mu = zeros(2)
                                /\ ca.omega \in {One, Inf}
                                /\ ca.eta \in {DefaultConfig(cls).eta, Inf}
          /\ Start(ca, cb)
    \/ \E ca \in Families, cb \in Families :
          ca # cb /\ Start(DefaultConfig(ca), DefaultConfig(cb))

ReadOps == {"rand", "loglik", "div", "stat", "stat.reduce"}

\* A reading call leaves the instances as they are, so what a call does
\* after a reading call it does without the reading call: calls are made
\* when the last call was not a reading call, except update, which takes
\* the record stat returned.
Settled == ret.op \notin ReadOps

Nu == {Default, Given(Inf), Given(I(2))}

Flags == {<<FALSE, FALSE>>, <<FALSE, TRUE>>, <<TRUE, FALSE>>, <<TRUE, TRUE>>}

\* A call is made when the last call was not a reading call; in a run of
\* one call (once), when no call was made yet.
Ready(once) == IF once THEN ret = NoCall /\ ncall = 0 ELSE Settled

\* update with the record of stat is the call after stat.
Held(once) == once => ncall = 0

Construction(once) ==
    \/ \E i \in Insts, c \in DirichInitArgs : Ready(once) /\ dirich_init(i, c[1], c[2], c[3])
    \/ \E i \in Insts, c \in GaussgammaInitArgs :
          Ready(once) /\ gaussgamma_init(i, c[1], c[2], c[3], c[4], c[5])
    \/ \E i \in Insts, c \in GausswishInitArgs :
          Ready(once) /\ gausswish_init(i, c[1], c[2], c[3], c[4], c[5])
    \/ \E i \in Insts, j \in Insts : Ready(once) /\ dirich_init_from(i, j)
    \/ \E i \in Insts, j \in Insts : Ready(once) /\ gaussgamma_init_from(i, j)
    \/ \E i \in Insts, j \in Insts : Ready(once) /\ gausswish_init_from(i, j)

Assignment(once) ==
    \/ \E i \in Insts, pi \in {Half3, <<One, Zero, Zero>>, <<One, One, Zero>>,
                               <<One, Zero>>} : Ready(once) /\ dirich_set_pi(i, pi)
    \/ \E i \in Insts, alpha \in {I(2), Inf, Zero} : Ready(once) /\ dirich_set_alpha(i, alpha)
    \/ \E i \in Insts, mu \in {Vec(1, 0), <<One>>, <<NaN, Zero>>} : Ready(once) /\ gaussgamma_set_mu(i, mu)
    \/ \E i \in Insts, omega \in {I(2), Inf, Zero} : Ready(once) /\ gaussgamma_set_omega(i, omega)
    \/ \E i \in Insts, sigma \in {Vec(1, 4), Vec(1, 0)} : Ready(once) /\ gaussgamma_set_sigma(i, sigma)
    \/ \E i \in Insts, eta \in {I(2), Inf, Zero} : Ready(once) /\ gaussgamma_set_eta(i, eta)
    \/ \E i \in Insts, mu \in {Vec(1, 0), <<One>>, <<NaN, Zero>>} : Ready(once) /\ gausswish_set_mu(i, mu)
    \/ \E i \in Insts, omega \in {I(2), Inf, Zero} : Ready(once) /\ gausswish_set_omega(i, omega)
    \/ \E i \in Insts, sigma \in {Sigma2, << Vec(1, 1), Vec(0, 1) >>,
                                  << Vec(1, 2), Vec(2, 1) >>} : Ready(once) /\ gausswish_set_sigma(i, sigma)
    \/ \E i \in Insts, eta \in {I(3), Inf, One} : Ready(once) /\ gausswish_set_eta(i, eta)
    \/ \E i \in Insts, j \in Insts : Ready(once) /\ dirich_copy(i, j)
    \/ \E i \in Insts, j \in Insts : Ready(once) /\ gaussgamma_copy(i, j)
    \/ \E i \in Insts, j \in Insts : Ready(once) /\ gausswish_copy(i, j)

Reading(once) ==
    \/ \E i \in Insts : \E g \in GammaDraws(obj[i].dim) : Ready(once) /\ dirich_rand(i, g)
    \/ \E i \in Insts, obs \in {Default, Given(<<1, 2>>)} : Ready(once) /\ dirich_loglik(i, obs)
    \/ \E i \in Insts, j \in Insts : Ready(once) /\ dirich_div(i, j)
    \/ \E i \in Insts, e \in DirichEvidence : Ready(once) /\ dirich_stat(i, e)
    \/ \E i \in Insts, e \in DirichEvidence, cut \in 1..MaxBatches :
          Ready(once) /\ dirich_stat_shards(i, e, cut)
    \/ \E i \in Insts : \E g \in GammaDraws(obj[i].dim), z \in NormalDraws(obj[i].dim) :
          Ready(once) /\ gaussgamma_rand(i, g, z)
    \/ \E i \in Insts : Ready(once) /\ gausswish_rand(i)
    \/ \E i \in Insts, obs \in {ObsA, ObsB, ObsE, ObsC}, nu \in Nu : Ready(once) /\ gaussgamma_loglik(i, obs, nu)
    \/ \E i \in Insts, obs \in {ObsA, ObsB, ObsE, ObsC}, nu \in Nu : Ready(once) /\ gausswish_loglik(i, obs, nu)
    \/ \E i \in Insts, j \in Insts : Ready(once) /\ gaussgamma_div(i, j)
    \/ \E i \in Insts, j \in Insts : Ready(once) /\ gausswish_div(i, j)
    \/ \E i \in Insts, e \in GaussEvidence, f \in Flags : Ready(once) /\ gaussgamma_stat(i, e, f[1], f[2])
    \/ \E i \in Insts, e \in GaussEvidence, f \in Flags : Ready(once) /\ gausswish_stat(i, e, f[1], f[2])
    \/ \E i \in Insts, e \in GaussEvidence, cut \in 1..MaxBatches, f \in Flags :
          Ready(once) /\ gaussgamma_stat_shards(i, e, cut, f[1], f[2])
    \/ \E i \in Insts, e \in GaussEvidence, cut \in 1..MaxBatches, f \in Flags :
          Ready(once) /\ gausswish_stat_shards(i, e, cut, f[1], f[2])

\* update with a record the caller wrote.
UpdateWritten(once) ==
    \/ \E i \in Insts : \E s \in DirichStats(obj[i].dim) : Ready(once) /\ dirich_update(i, s)
    \/ \E i \in Insts : \E s \in GaussStats("gaussgamma", obj[i].dim) : Ready(once) /\ gaussgamma_update(i, s)
    \/ \E i \in Insts : \E s \in GaussStats("gausswish", obj[i].dim) : Ready(once) /\ gausswish_update(i, s)

\* update with the record the last call of stat returned.
UpdateHeld(once) ==
    \/ \E i \in Insts : \E s \in HeldStat : Held(once) /\ dirich_update(i, s)
    \/ \E i \in Insts : \E s \in HeldStat : Held(once) /\ gaussgamma_update(i, s)
    \/ \E i \in Insts : \E s \in HeldStat : Held(once) /\ gausswish_update(i, s)

Next ==
    \/ Construction(FALSE)
    \/ Assignment(FALSE)
    \/ Reading(FALSE)
    \/ UpdateWritten(FALSE)
    \/ UpdateHeld(FALSE)

Spec == Init /\ [][Next]_vars

\* One call on two instances in any parameter state: a call from the state
\* after construction, or update with the record of such a call of stat.
NextCall ==
    \/ Construction(TRUE)
    \/ Assignment(TRUE)
    \/ Reading(TRUE)
    \/ UpdateWritten(TRUE)
    \/ UpdateHeld(TRUE)

SpecCall == InitCall /\ [][NextCall]_vars

\* Calls that change an instance in a run of SpecSeq.
SeqCalls == 2

\* i = gaussgamma(j.dim, mu=j.sigma): the array the sigma getter of j
\* returns is stored as the mu of i, next to the default sigma.
gaussgamma_init_across(i, j) ==
    /\ ncall < MaxCalls
    /\ i # j
    /\ obj[j].cls = "gaussgamma"
    /\ LET n == NewArray(heap, ones(obj[j].dim))
       IN  Finish(n.heap,
                  [obj EXCEPT ![i] = Gauss("gaussgamma", obj[j].dim, obj[j].sigma, One, n.addr, One)],
                  Ret("__init__", i, j, <<"sigma">>, "", NoneVal))
    /\ ncall' = ncall + 1

\* The states SpecSeq starts in: a and b constructed with the same
\* arguments, the defaults or other finite ones, and SeqCalls calls ahead.
SeqConfigs(cls) ==
    {DefaultConfig(cls)} \cup
        {c \in Configs(cls) : IF cls = "dirich" THEN c.pi = Half3 /\ c.alpha = I(2)
                              ELSE c.mu = Vec(1, 0) /\ c.omega = I(2) /\ c.eta = I(3)}

InitSeq ==
    \E cls \in Families : \E c \in SeqConfigs(cls) :
        /\ heap = CanonHeap(Build(c, c).heap, Build(c, c).obj)
        /\ obj = CanonObj(Build(c, c).obj)
        /\ ret = NoCall
        /\ ncall = MaxCalls - SeqCalls

\* A responsibility matrix whose column does not sum to 1.
ProbU == << <<I(2)>>, <<Zero>>, <<One>> >>

\* Evidence of dirich in SpecSeq.
SeqProbs == DirichEvidence \cup {<<ProbU>>}

\* Evidence of the Gaussian classes in SpecSeq.
SeqEvidence == SeqsUpTo({ItemA, ItemB}, MaxBatches)

SeqConstruction ==
    \/ \E i \in Insts, pi \in {Given(Half3), Given(<<One>>)}, alpha \in {Default, Given(I(2))} :
          Settled /\ dirich_init(i, 3, pi, alpha)
    \/ \E i \in Insts, mu \in {Default, Given(Vec(1, 0))},
          sigma \in {Default, Given(<<One, One, One>>)} :
          Settled /\ gaussgamma_init(i, 2, mu, Default, sigma, Default)
    \/ \E i \in Insts, mu \in {Default, Given(Vec(1, 0))}, sigma \in {Default, Given(Sigma2)} :
          Settled /\ gausswish_init(i, 2, mu, Default, sigma, Default)
    \/ \E i \in Insts, j \in Insts : Settled /\ dirich_init_from(i, j)
    \/ \E i \in Insts, j \in Insts : Settled /\ gaussgamma_init_from(i, j)
    \/ \E i \in Insts, j \in Insts : Settled /\ gausswish_init_from(i, j)
    \/ \E i \in Insts, j \in Insts : Settled /\ gaussgamma_init_across(i, j)

SeqCopy ==
    \/ \E i \in Insts, j \in Insts : Settled /\ dirich_copy(i, j)
    \/ \E i \in Insts, j \in Insts : Settled /\ gaussgamma_copy(i, j)
    \/ \E i \in Insts, j \in Insts : Settled /\ gausswish_copy(i, j)

\* stat, when a call of update may follow it.
SeqStat ==
    \/ \E i \in Insts, e \in SeqProbs : Settled /\ ncall < MaxCalls /\ dirich_stat(i, e)
    \/ \E i \in Insts, e \in SeqEvidence, scaled \in BOOLEAN :
          Settled /\ ncall < MaxCalls /\ gaussgamma_stat(i, e, FALSE, scaled)
    \/ \E i \in Insts, e \in SeqEvidence, scaled \in BOOLEAN :
          Settled /\ ncall < MaxCalls /\ gausswish_stat(i, e, FALSE, scaled)

SeqUpdate ==
    \/ \E i \in Insts : \E s \in DirichStats(obj[i].dim) : Settled /\ dirich_update(i, s)
    \/ \E i \in Insts : \E s \in HeldStat : dirich_update(i, s)
    \/ \E i \in Insts : \E s \in HeldStat : gaussgamma_update(i, s)
    \/ \E i \in Insts : \E s \in HeldStat : gausswish_update(i, s)

\* Sequences of SeqCalls calls on two instances constructed alike.
NextSeq ==
    \/ SeqConstruction
    \/ SeqCopy
    \/ SeqStat
    \/ SeqUpdate

SpecSeq == InitSeq /\ [][NextSeq]_vars

-----------------------------------------------------------------------------
(* unique of src/__util__.py.  seq is an array of integer labels; indices  *)
(* count from 0 as in the code, so x[k] of the code is x[k + 1] here.      *)

\* Labels in one sequence, and the labels.
MaxLen == 4

Labels == 0..2

LabelSeqs == UNION {[1..n -> Labels] : n \in 0..MaxLen}

\* np.argsort(seq): the default sort is not stable, so any permutation of
\* the indices that puts the labels in non-decreasing order.
argsort(seq) ==
    {order \in [1..Len(seq) -> 0..(Len(seq) - 1)] :
        /\ \A k, l \in 1..Len(seq) : k # l => order[k] # order[l]
        /\ \A k \in 1..(Len(seq) - 1) : seq[order[k] + 1] <= seq[order[k + 1] + 1]}

\* ind, = np.where(np.diff(seq[order]) > 0), then the concatenation of
\* [0], ind + 1 and [np.size(seq)].
unique_ind(seq, order) ==
    <<0>> \o where({k + 1 : k \in {l \in 0..(Len(seq) - 2) :
                                    seq[order[l + 2] + 1] - seq[order[l + 1] + 1] > 0}})
          \o <<Len(seq)>>

\* The pairs (seq[order[i]], order[i:j]) the generator yields for the pairs
\* t.. of zip(ind[:-1], ind[1:]), up to the first order[i] out of bounds.
RECURSIVE unique_yield(_, _, _, _)
unique_yield(seq, order, ind, t) ==
    IF t >= Len(ind) THEN [raised |-> "", groups |-> <<>>]
    ELSE IF ind[t] >= Len(order) THEN [raised |-> "IndexError", groups |-> <<>>]
    ELSE LET rest == unique_yield(seq, order, ind, t + 1)
         IN  [raised |-> rest.raised,
              groups |-> <<[val |-> seq[order[ind[t] + 1] + 1],
                            idx |-> SubSeq(order, ind[t] + 1, ind[t + 1])]>> \o rest.groups]

\* list(unique(seq)) with the argsort order: the groups in ret.val, and the
\* exception that ends the iteration.
unique(seq, order) ==
    /\ ret.op = "" /\ ret.arg = seq
    /\ ret' = Ret("unique", NoneVal, NoneVal, seq,
                  unique_yield(seq, order, unique_ind(seq, order), 1).raised,
                  unique_yield(seq, order, unique_ind(seq, order), 1).groups)
    /\ UNCHANGED <<heap, obj, ncall>>

\* The caller holds a sequence of labels, next to two default dirich.
InitUnique ==
    \E seq \in LabelSeqs :
        /\ heap = CanonHeap(Build(DefaultConfig("dirich"), DefaultConfig("dirich")).heap,
                            Build(DefaultConfig("dirich"), DefaultConfig("dirich")).obj)
        /\ obj = CanonObj(Build(DefaultConfig("dirich"), DefaultConfig("dirich")).obj)
        /\ ret = Ret("", NoneVal, NoneVal, seq, "", NoneVal)
        /\ ncall = 0

NextUnique == \E seq \in LabelSeqs : \E order \in argsort(seq) : unique(seq, order)

SpecUnique == InitUnique /\ [][NextUnique]_vars

-----------------------------------------------------------------------------
(* Properties.                                                             *)

\* The stored parameters and dim of an instance, by value.
StoredOf(h, x) ==
    [cls |-> x.cls, dim |-> x.dim,
     pi |-> IF x.pi = Null THEN <<>> ELSE h[x.pi], alpha |-> x.alpha,
     mu |-> IF x.mu = Null THEN <<>> ELSE h[x.mu], omega |-> x.omega,
     sigma |-> IF x.sigma = Null THEN <<>> ELSE h[x.sigma], eta |-> x.eta]

\* The call made last returned (raised nothing).
Returned(r, op) == r.op = op /\ r.raised = ""

\* C1: dirich.update is the exact conjugate update.  For an instance with
\* finite alpha and a record s of its dimension, after update(s) the new
\* alpha is the old alpha + s.alpha and the new pi is
\* (old alpha * old pi + s.pi) / (old alpha + s.alpha), coordinate by
\* coordinate.  With dim 3, pi = [1/3,1/3,1/3], alpha = 1, stat of the matrix
\* [[1,0],[0,1],[0,0]] is pi = [1,1,0], alpha = 2, and update with it gives
\* pi = [4/9,4/9,1/9], alpha = 3.
DirichUpdateIsConjugate ==
    [][/\ (Returned(ret', "stat") /\ obj[ret'.self].cls = "dirich" /\ ret'.arg = <<ProbA>>)
              => ret'.val = [pi |-> <<One, One, Zero>>, alpha |-> I(2)]
       /\ (Returned(ret', "update") /\ obj[ret'.self].cls = "dirich"
               /\ isfinite(obj[ret'.self].alpha))
              => /\ obj'[ret'.self].alpha = RAdd(obj[ret'.self].alpha, ret'.arg.rec.alpha)
                 /\ \A k \in 1..obj[ret'.self].dim :
                        heap'[obj'[ret'.self].pi][k]
                            = RDiv(RAdd(RMul(obj[ret'.self].alpha, heap[obj[ret'.self].pi][k]),
                                        ret'.arg.rec.pi[k]),
                                   RAdd(obj[ret'.self].alpha, ret'.arg.rec.alpha))
       /\ (Returned(ret', "update") /\ obj[ret'.self].cls = "dirich"
               /\ dirich_param(heap, obj[ret'.self]) = [pi |-> Uniform3, alpha |-> One]
               /\ ret'.arg.rec = [pi |-> <<One, One, Zero>>, alpha |-> I(2)])
              => dirich_param(heap', obj'[ret'.self])
                     = [pi |-> <<R(4, 9), R(4, 9), R(1, 9)>>, alpha |-> I(3)]
      ]_vars

\* update returned on a dirich that held alpha = 1 with the record stat gave
\* of [[1,0],[0,1],[0,0]], and on one that held alpha = 2.
DirichUpdateDone ==
    /\ Returned(ret, "update")
    /\ ret.arg = [cls |-> "dirich", rec |-> [pi |-> <<One, One, Zero>>, alpha |-> I(2)]]
    /\ obj[ret.self].alpha = I(3)
    /\ heap[obj[ret.self].pi] = <<R(4, 9), R(4, 9), R(1, 9)>>

\* The all-zero record of the class of a record.
IsZeroStat(stat) ==
    IF stat.cls = "dirich"
    THEN stat.rec = [pi |-> zeros(Len(stat.rec.pi)), alpha |-> Zero]
    ELSE /\ stat.rec.mu = zeros(Len(stat.rec.mu))
         /\ stat.rec.omega = Zero
         /\ stat.rec.eta = Zero
         /\ stat.rec.sigma = IF stat.cls = "gaussgamma" THEN zeros(Len(stat.rec.sigma))
                              ELSE zerosM(Len(stat.rec.sigma))

\* C2: for each family and every valid parameter state (every combination
\* of finite and infinite alpha, omega, eta), update with the all-zero
\* record leaves every stored parameter equal to its value before the call.
ZeroStatIsIdentity ==
    [][(Returned(ret', "update") /\ IsZeroStat(ret'.arg))
           => \A i \in Insts : StoredOf(heap', obj'[i]) = StoredOf(heap, obj[i])]_vars

\* update with the all-zero record returned on a gausswish with infinite
\* omega, a finite eta, and a mu and sigma that are not the defaults.
ZeroStatUpdateDone ==
    /\ Returned(ret, "update")
    /\ IsZeroStat(ret.arg)
    /\ obj[ret.self].cls = "gausswish"
    /\ isinf(obj[ret.self].omega) /\ obj[ret.self].eta = I(3)
    /\ heap[obj[ret.self].sigma] = Sigma2

\* The record stat returns for the whole evidence of a reduction.
WholeStat(r) ==
    IF obj[r.self].cls = "dirich" THEN dirich_stat_value(obj[r.self].dim, r.arg)
    ELSE IF obj[r.self].cls = "gaussgamma"
    THEN gaussgamma_stat_value(heap[obj[r.self].mu], obj[r.self].dim,
                               r.arg[1], r.arg[2], r.arg[3])
    ELSE gausswish_stat_value(heap[obj[r.self].mu], obj[r.self].dim,
                              r.arg[1], r.arg[2], r.arg[3])

\* C3: sharded reduction is equivalent to unsharded evidence.  For each
\* family and each mode of stat, the records stat returns for the shards of
\* an evidence set, added field by field, are the record stat returns for
\* the whole set.
ShardedStatEqualsWhole == Returned(ret, "stat.reduce") => ret.val = WholeStat(ret)

\* sqerr of loglik for the instance and the observations of a call.
SqerrOf(r) ==
    IF obj[r.self].cls = "gaussgamma"
    THEN gaussgamma_sqerr(gauss_param(heap, obj[r.self]), obj[r.self].dim, r.arg[1])
    ELSE gausswish_sqerr(gauss_param(heap, obj[r.self]), obj[r.self].dim, r.arg[1])

\* C4: for both Gaussian families, loglik on a valid instance with a
\* dim x N batch of observations completes without raising in all three
\* modes of nu: with nu = None it returns N log-densities; with nu = +inf
\* the N log-densities and N ones; with a finite nu N log-densities and the
\* N weights (nu+dim)/(nu+sqerr).
GaussLoglikCompletes ==
    (ret.op = "loglik" /\ IsGauss(obj[ret.self].cls)
         /\ NRows(ret.arg[1]) = obj[ret.self].dim)
        => /\ ret.raised = ""
           /\ Len(ret.val.val) = NCols(ret.arg[1])
           /\ (ret.arg[2].given /\ isinf(ret.arg[2].val))
                  => ret.val.weight = ones(NCols(ret.arg[1]))
           /\ (ret.arg[2].given /\ isfinite(ret.arg[2].val))
                  => ret.val.weight
                         = [j \in 1..NCols(ret.arg[1]) |->
                               RDiv(RAdd(ret.arg[2].val, I(obj[ret.self].dim)),
                                    RAdd(ret.arg[2].val, SqerrOf(ret)[j]))]

\* C5: hyperparameters are validated at construction as at every other
\* assignment: a construction with an invalid hyperparameter fails as the
\* setter does, so no instance ever holds a parameter its setters refuse.
NoInvalidInstance == \A i \in Insts : Valid(heap, obj[i])

\* C6: rand, loglik, div and stat are read-only.  For each family, every
\* valid instance and every argument, after the call, whether it returns or
\* fails an assertion, every stored parameter and dim of the instance has
\* the value it had before the call, and so has the other instance of div;
\* stat does not modify the stored mu it takes as its reference point.
ReadingIsReadOnly ==
    [][ret'.op \in ReadOps
           => \A i \in Insts : StoredOf(heap', obj'[i]) = StoredOf(heap, obj[i])]_vars

\* stat returned a record of total weight 3 on a gaussgamma whose mu is not
\* zero: the reference point, a copy of mu, was moved to the sample mean.
StatMovedReference ==
    /\ Returned(ret, "stat")
    /\ obj[ret.self].cls = "gaussgamma"
    /\ heap[obj[ret.self].mu] = Vec(1, 0)
    /\ ret.val.omega = I(3)
    /\ ret.val.mu # Vec(3, 0)

\* C7: degenerate hyperparameters freeze their part of the state under
\* update, for any record.  A dirich with alpha = +inf keeps pi and alpha; a
\* Gaussian instance with omega = +inf keeps mu and omega, with eta = +inf
\* sigma and eta, with both everything.  With omega finite and eta = +inf
\* update sets mu to (omega*mu+stat.mu)/(omega+stat.omega) and omega to
\* omega+stat.omega, and leaves sigma as it is whatever stat.sigma is.
DegenerateIsFrozen ==
    [][Returned(ret', "update")
           => /\ (obj[ret'.self].cls = "dirich" /\ isinf(obj[ret'.self].alpha))
                     => dirich_param(heap', obj'[ret'.self])
                            = dirich_param(heap, obj[ret'.self])
              /\ (IsGauss(obj[ret'.self].cls) /\ isinf(obj[ret'.self].omega))
                     => /\ heap'[obj'[ret'.self].mu] = heap[obj[ret'.self].mu]
                        /\ obj'[ret'.self].omega = obj[ret'.self].omega
              /\ (IsGauss(obj[ret'.self].cls) /\ isinf(obj[ret'.self].eta))
                     => /\ heap'[obj'[ret'.self].sigma] = heap[obj[ret'.self].sigma]
                        /\ obj'[ret'.self].eta = obj[ret'.self].eta
              /\ (IsGauss(obj[ret'.self].cls) /\ isfinite(obj[ret'.self].omega)
                      /\ isinf(obj[ret'.self].eta))
                     => /\ heap'[obj'[ret'.self].mu]
                               = VDivS(VAdd(VScale(obj[ret'.self].omega,
                                                   heap[obj[ret'.self].mu]),
                                            ret'.arg.rec.mu),
                                       RAdd(obj[ret'.self].omega, ret'.arg.rec.omega))
                        /\ obj'[ret'.self].omega
                               = RAdd(obj[ret'.self].omega, ret'.arg.rec.omega)
      ]_vars

\* update returned on the gaussgamma of dim 2 with mu = [0,0], omega = 1,
\* sigma = [1,1], eta = +inf, with the record mu = [2,2], omega = 2,
\* sigma = [1,2]: mu is [2/3,2/3], omega is 3 and sigma is [1,1].
FrozenSigmaUpdateDone ==
    /\ Returned(ret, "update")
    /\ obj[ret.self].cls = "gaussgamma"
    /\ ret.arg.rec.sigma = Vec(1, 2)
    /\ isinf(obj[ret.self].eta)
    /\ obj[ret.self].omega = I(3)
    /\ heap[obj[ret.self].mu] = <<R(2, 3), R(2, 3)>>
    /\ heap[obj[ret.self].sigma] = ones(2)

\* C8: update returns the instance itself for every family and every
\* parameter state, the degenerate cases where it does nothing included, and
\* so does copy.
UpdateReturnsSelf ==
    (Returned(ret, "update") \/ Returned(ret, "copy")) => ret.val = ret.self

\* C9: div is reflexive.  For each family and every valid parameter set,
\* every combination of infinite alpha, omega and eta included, div of an
\* instance against itself, or against an instance that holds the same
\* parameters, is 0: not +inf, and not an error.
DivIsReflexive ==
    (ret.op = "div"
         /\ (ret.other = ret.self
                \/ (obj[ret.other].cls = obj[ret.self].cls
                       /\ StoredOf(heap, obj[ret.other]) = StoredOf(heap, obj[ret.self]))))
        => ret.raised = "" /\ ret.val = LCZero

\* div returned for two gausswish instances that hold the same parameters,
\* with finite omega and eta and a sigma that is not the identity.
DivOfIdenticalDone ==
    /\ Returned(ret, "div")
    /\ ret.other # ret.self
    /\ obj[ret.self].cls = "gausswish"
    /\ StoredOf(heap, obj[ret.other]) = StoredOf(heap, obj[ret.self])
    /\ isfinite(obj[ret.self].omega) /\ isfinite(obj[ret.self].eta)

\* C10: dirich.div returns +inf whenever the supports of the two instances
\* differ (a coordinate has pi > 0 in one and pi = 0 in the other), for
\* every combination of finite and infinite alpha; the closed form is
\* evaluated only when the supports are the same, and over the coordinates
\* with pi > 0 only.
DirichDivNeedsSameSupport ==
    (Returned(ret, "div") /\ obj[ret.self].cls = "dirich")
        => /\ Support(heap[obj[ret.self].pi]) # Support(heap[obj[ret.other].pi])
                  => ret.val = LCInf
           /\ ret.arg.branch = "closed"
                  => /\ Support(heap[obj[ret.self].pi]) = Support(heap[obj[ret.other].pi])
                     /\ ret.arg.ind = where(Support(heap[obj[ret.self].pi]))

\* div returned +inf for two dirich of finite alpha whose supports differ.
DirichDivOfDifferentSupportDone ==
    /\ Returned(ret, "div")
    /\ obj[ret.self].cls = "dirich"
    /\ isfinite(obj[ret.self].alpha) /\ isfinite(obj[ret.other].alpha)
    /\ heap[obj[ret.self].pi] = Half3 /\ heap[obj[ret.other].pi] = Uniform3
    /\ ret.val = LCInf

\* The parameters p with the Gauss part made neutral: omega 1 and the mean
\* mu, so that the Gauss part of div of two such records is 0.
NeutralGauss(p, mu) == [p EXCEPT !.omega = One, !.mu = mu]

\* The parameters p with the second part made neutral: the default eta of
\* the class and the dispersion sigma.
NeutralSecond(cls, p, sigma) == [p EXCEPT !.eta = DefaultConfig(cls).eta, !.sigma = sigma]

\* The value of div of a Gaussian class for the parameters post and prior.
DivValueOf(cls, dim, post, prior) ==
    IF cls = "gaussgamma" THEN gaussgamma_div_value(dim, post, prior).val
    ELSE gausswish_div_value(dim, post, prior).val

\* The rule of C11 for two parameter records of a Gaussian class.
GaussDegenerateRule(cls, dim, post, prior, val) ==
    /\ (isinf(post.omega) # isinf(prior.omega)) => val = LCInf
    /\ (isinf(post.eta) # isinf(prior.eta)) => val = LCInf
    /\ (isinf(post.omega) /\ isinf(prior.omega) /\ post.mu # prior.mu) => val = LCInf
    /\ (isinf(post.eta) /\ isinf(prior.eta) /\ post.sigma # prior.sigma) => val = LCInf
    /\ (isinf(post.omega) /\ isinf(prior.omega) /\ post.mu = prior.mu)
           => val = DivValueOf(cls, dim, NeutralGauss(post, post.mu),
                               NeutralGauss(prior, post.mu))
    /\ (isinf(post.eta) /\ isinf(prior.eta) /\ post.sigma = prior.sigma)
           => val = DivValueOf(cls, dim, NeutralSecond(cls, post, post.sigma),
                               NeutralSecond(cls, prior, post.sigma))

\* C11: the degenerate-equality rule of div in the three families.  If
\* exactly one of the two instances has the singular hyperparameter infinite
\* (alpha; omega or eta) div is +inf; if both have, div is +inf unless the
\* parameter that goes with it (pi; mu; sigma) is equal in both, and then
\* that part contributes 0: dirich returns 0, a Gaussian class with both
\* omega infinite and equal mu returns the value of its Gamma/Wishart part,
\* and with both eta infinite and equal sigma the value of its Gauss part.
DivDegenerateRule ==
    Returned(ret, "div")
        => IF obj[ret.self].cls = "dirich"
           THEN /\ (isinf(obj[ret.self].alpha) # isinf(obj[ret.other].alpha))
                       => ret.val = LCInf
                /\ (isinf(obj[ret.self].alpha) /\ isinf(obj[ret.other].alpha))
                       => ret.val = IF heap[obj[ret.self].pi] = heap[obj[ret.other].pi]
                                    THEN LCZero ELSE LCInf
           ELSE GaussDegenerateRule(obj[ret.self].cls, obj[ret.self].dim,
                                    gauss_param(heap, obj[ret.self]),
                                    gauss_param(heap, obj[ret.other]), ret.val)

\* div returned a finite value that is not 0 for two gausswish instances
\* with infinite omega, the same mu and two different finite eta.
DivOfFixedMeansDone ==
    /\ Returned(ret, "div")
    /\ obj[ret.self].cls = "gausswish"
    /\ isinf(obj[ret.self].omega) /\ isinf(obj[ret.other].omega)
    /\ heap[obj[ret.self].mu] = heap[obj[ret.other].mu]
    /\ isfinite(obj[ret.self].eta) /\ isfinite(obj[ret.other].eta)
    /\ obj[ret.self].eta # obj[ret.other].eta
    /\ ret.val # LCZero /\ LCCoef(ret.val, UnitAtom)[2] # 0

\* The sum over the items of evidence of: the number of observations
\* ("size"), the weights, the scales, or the products of weight and scale.
RECURSIVE TotalOf(_, _)
TotalOf(what, evidence) ==
    IF Len(evidence) = 0 THEN Zero
    ELSE RAdd(IF what = "size" THEN I(NCols(Head(evidence).obs))
              ELSE IF what = "weight" THEN VSum(Head(evidence).weight)
              ELSE IF what = "scale" THEN VSum(Head(evidence).scale)
              ELSE VSum(VMul(Head(evidence).weight, Head(evidence).scale)),
              TotalOf(what, Tail(evidence)))

\* stat of a Gaussian class returned, with the flags weighted and scaled.
GaussStatReturned(weighted, scaled) ==
    /\ Returned(ret, "stat")
    /\ IsGauss(obj[ret.self].cls)
    /\ ret.arg[2] = weighted /\ ret.arg[3] = scaled

\* C12 as stated: in stat of the Gaussian classes stat.eta equals stat.omega
\* in every mode except weighted=False, scaled=True.
StatEtaMirrorsOmega ==
    (GaussStatReturned(FALSE, FALSE) \/ GaussStatReturned(TRUE, FALSE)
         \/ GaussStatReturned(TRUE, TRUE))
        => ret.val.eta = ret.val.omega

\* C12, amended: stat.eta equals stat.omega in the two modes without
\* weights (the number of observations, or the sum of the scales, in both
\* fields).  With weights stat.omega is the sum of the weights, or of the
\* products of weight and scale, and stat.eta is the number of observations
\* (scaled=False), or the sum of the scales (scaled=True).
StatEtaByMode ==
    /\ GaussStatReturned(FALSE, FALSE)
           => /\ ret.val.eta = TotalOf("size", ret.arg[1])
              /\ ret.val.omega = ret.val.eta
    /\ GaussStatReturned(FALSE, TRUE)
           => /\ ret.val.eta = TotalOf("scale", ret.arg[1])
              /\ ret.val.omega = ret.val.eta
    /\ GaussStatReturned(TRUE, FALSE)
           => /\ ret.val.eta = TotalOf("size", ret.arg[1])
              /\ ret.val.omega = TotalOf("weight", ret.arg[1])
    /\ GaussStatReturned(TRUE, TRUE)
           => /\ ret.val.eta = TotalOf("scale", ret.arg[1])
              /\ ret.val.omega = TotalOf("product", ret.arg[1])

\* stat returned with weights and scales, and eta is not omega.
WeightedStatDone ==
    /\ GaussStatReturned(TRUE, TRUE)
    /\ ret.arg[1] = <<ItemA, ItemB>>
    /\ ret.val.eta = I(5) /\ ret.val.omega = I(3)

\* Instance i has after the step the stored parameters it had before.
Kept(i) == StoredOf(heap', obj'[i]) = StoredOf(heap, obj[i])

\* C13: copy resets a posterior to its prior.  For two instances of the same
\* family and dim, after self.copy(other) every stored parameter of self
\* equals that of other and other is unchanged; a later update on self does
\* not change other; with another family or dim the call fails and self is
\* unchanged.
CopyResets ==
    [][/\ ret'.op = "copy"
           => IF obj[ret'.other].cls = obj[ret'.self].cls
                  /\ obj[ret'.other].dim = obj[ret'.self].dim
              THEN /\ ret'.raised = ""
                   /\ StoredOf(heap', obj'[ret'.self]) = StoredOf(heap', obj'[ret'.other])
                   /\ Kept(ret'.other)
              ELSE ret'.raised # "" /\ Kept(ret'.self)
       /\ ret'.op = "update" => \A j \in Insts \ {ret'.self} : Kept(j)]_vars

\* The indices of the groups, as a bag: how often index k was yielded.
TimesYielded(groups, k) ==
    Cardinality({<<g, p>> \in (DOMAIN groups) \X (0..MaxLen) :
                    p + 1 \in DOMAIN groups[g].idx /\ groups[g].idx[p + 1] = k})

\* The groups are a partition of the indices of seq by label, in strictly
\* increasing order of the label.
IsPartition(seq, groups) ==
    /\ \A k \in 0..(Len(seq) - 1) : TimesYielded(groups, k) = 1
    /\ \A g \in DOMAIN groups :
          \A p \in DOMAIN groups[g].idx :
              /\ groups[g].idx[p] \in 0..(Len(seq) - 1)
              /\ seq[groups[g].idx[p] + 1] = groups[g].val
    /\ \A g \in DOMAIN groups : g > 1 => groups[g - 1].val < groups[g].val

\* C14 as stated: unique(seq) yields a partition of the indices of seq for
\* every sequence of labels, the empty sequence included: every index is in
\* exactly one group, the indices of a group carry the yielded value, and
\* the values strictly increase.
UniquePartitions ==
    ret.op = "unique" => ret.raised = "" /\ IsPartition(ret.arg, ret.val)

\* The step is update of a dirich with the record the call of stat before
\* it returned (held), or with a record the caller wrote.
DirichUpdateStep(held) ==
    /\ ret'.op = "update"
    /\ obj[ret'.self].cls = "dirich"
    /\ (ret.op = "stat" /\ ret.raised = "") = held

\* C15: the Dirichlet state under the inference loop.  From an instance
\* whose pi is non-negative and sums to 1 and whose alpha is positive, each
\* update(stat(evidence)) with non-negative evidence leaves pi non-negative
\* with sum 1, loses no coordinate with pi > 0, and leaves alpha positive and
\* not smaller.  update does not validate: with a written record whose alpha
\* is not the sum of its pi (on a finite alpha) pi no longer sums to 1.
DirichLoopKeepsSimplex ==
    [][/\ DirichUpdateStep(TRUE)
           => /\ pi_asserts(obj'[ret'.self].dim, heap'[obj'[ret'.self].pi])
              /\ Support(heap[obj[ret'.self].pi]) \subseteq Support(heap'[obj'[ret'.self].pi])
              /\ RLt(Zero, obj'[ret'.self].alpha)
              /\ RLe(obj[ret'.self].alpha, obj'[ret'.self].alpha)
       /\ (/\ DirichUpdateStep(FALSE)
           /\ ret'.raised = ""
           /\ ~isinf(obj[ret'.self].alpha)
           /\ VSum(ret'.arg.rec.pi) # ret'.arg.rec.alpha)
           => VSum(heap'[obj'[ret'.self].pi]) # One]_vars

\* The second of two calls of update(stat(evidence)) on a default dirich
\* returned: after ProbA and then ProbB alpha is 4 and pi is on the simplex.
DirichLoopDone ==
    /\ Returned(ret, "update")
    /\ ncall = MaxCalls
    /\ obj[ret.self].cls = "dirich"
    /\ ret.arg.rec = dirich_stat_value(3, <<ProbB>>)
    /\ obj[ret.self].alpha = I(4)
    /\ heap[obj[ret.self].pi] = <<R(11, 24), R(1, 3), R(5, 24)>>

\* The parameter record of an instance, by value.
ParamOf(h, x) == IF x.cls = "dirich" THEN dirich_param(h, x) ELSE gauss_param(h, x)

\* The instance holds what its setters accept, and its hyperparameters are
\* finite.
FiniteValid(h, x) ==
    IF x.cls = "dirich" THEN dirich_valid(h, x) /\ isfinite(x.alpha)
    ELSE /\ isfinite(x.omega) /\ isfinite(x.eta)
         /\ IF x.cls = "gaussgamma" THEN gaussgamma_valid(h, x) ELSE gausswish_valid(h, x)

\* Unweighted evidence of a class, for an instance of dimension dim.
EvidenceOf(cls, dim) ==
    IF cls = "dirich" THEN {e \in SeqProbs : dirich_stat_asserts(dim, e)} ELSE SeqEvidence

\* The parameters after update(stat(evidence)) on an instance with the
\* parameters p: stat by the instance in the state p, unweighted.
BatchOf(cls, dim, p, evidence, scaled) ==
    IF cls = "dirich" THEN dirich_update_value(p, dirich_stat_value(dim, evidence))
    ELSE IF cls = "gaussgamma"
    THEN gaussgamma_update_value(p, gaussgamma_stat_value(p.mu, dim, evidence, FALSE, scaled))
    ELSE gausswish_update_value(p, gausswish_stat_value(p.mu, dim, evidence, FALSE, scaled))

\* The evidence and the flag scaled of a call of stat on a class.
HeldEvidence(r, cls) == IF cls = "dirich" THEN r.arg ELSE r.arg[1]

HeldScaled(r, cls) == IF cls = "dirich" THEN FALSE ELSE r.arg[3]

\* The step is i.update(i.stat(B)), and i was, before stat, in the state
\* that update(stat(A)) leaves from the state start.
SecondUpdate(i, start, A) ==
    /\ ret.op = "stat" /\ ret.raised = "" /\ ret.self = i
    /\ ret'.op = "update" /\ ret'.raised = "" /\ ret'.self = i
    /\ ret'.arg.rec = ret.val
    /\ ParamOf(heap, obj[i])
           = BatchOf(obj[i].cls, obj[i].dim, start, A, HeldScaled(ret, obj[i].cls))

\* What SecondUpdate leaves in i is what update(stat(A then B)) and
\* update(stat(B then A)) leave from the state start.
SameAsBatch(i, start, A, B) ==
    /\ ParamOf(heap', obj'[i])
           = BatchOf(obj[i].cls, obj[i].dim, start, A \o B, HeldScaled(ret, obj[i].cls))
    /\ ParamOf(heap', obj'[i])
           = BatchOf(obj[i].cls, obj[i].dim, start, B \o A, HeldScaled(ret, obj[i].cls))

\* C16: online accumulation is batch-consistent.  For each family, finite
\* hyperparameters and unweighted evidence, update(stat(A)) and then
\* update(stat(B)), each stat by the instance in its state of the moment,
\* leave the parameters that one update(stat([A, B])) leaves from the same
\* start, whatever the order of A and B.  The start is the state of the
\* other instance, of the same class and dim.
OnlineIsBatch ==
    [][\A i \in Insts, j \in Insts :
          (/\ i # j
           /\ obj[j].cls = obj[i].cls /\ obj[j].dim = obj[i].dim
           /\ FiniteValid(heap, obj[i]) /\ FiniteValid(heap, obj[j]))
              => \A A \in EvidenceOf(obj[i].cls, obj[i].dim) :
                     SecondUpdate(i, ParamOf(heap, obj[j]), A)
                         => SameAsBatch(i, ParamOf(heap, obj[j]), A,
                                        HeldEvidence(ret, obj[i].cls))]_vars

\* The second update of a gausswish returned: from the start that b is
\* still in, a took three observations, the last one alone.
OnlineUpdateDone ==
    /\ Returned(ret, "update") /\ ret.self = "a"
    /\ ncall = MaxCalls
    /\ obj["a"].cls = "gausswish" /\ obj["b"].cls = "gausswish"
    /\ FiniteValid(heap, obj["b"])
    /\ ret.arg.rec.omega = One
    /\ ParamOf(heap, obj["a"])
           = BatchOf("gausswish", 2, ParamOf(heap, obj["b"]), <<ItemA, ItemB>>, FALSE)
    /\ obj["a"].omega = RAdd(obj["b"].omega, I(3))

\* C17: instances are isolated from each other.  No operation on one
\* instance (construction, setter, copy, stat, update) changes a stored
\* parameter of a different instance, even when two instances were
\* constructed from the same array; A.copy(B) changes only the parameters
\* of A.
InstancesIsolated ==
    [][\A j \in Insts : ret'.self # j => Kept(j)]_vars

=============================================================================
